---- MODULE Spec2Model ----
(***************************************************************************)
(* Model of the side panel's autonomous loop controller                    *)
(* (src/entrypoints/sidepanel/App.tsx, sendMessage and stopGeneration).    *)
(*                                                                         *)
(* One step of the model is the code that runs between two awaits of       *)
(* sendMessage; stopGeneration may run at any await.  The LLM, the bridge  *)
(* and the page are the environment: their answers are drawn from small    *)
(* sets.  An LLM response is described by what the loop reads from it:     *)
(* how many actions parseActionsFromResponse finds and whether the text    *)
(* matches a completion phrase.                                            *)
(***************************************************************************)
EXTENDS Integers, Sequences, FiniteSets, TLC

----------------------------------------------------------------------------
(* Bounds of the model *)

\* largest value stored for maxAgentLoops in the model
MaxLoopsInput == 4
\* largest number of actions parsed from one response
MaxActions == 2

----------------------------------------------------------------------------
(* Program constants *)

DEFAULT_AGENT_LOOPS == 500
MIN_AGENT_LOOPS == 1
MAX_AGENT_LOOPS == 1000

Providers == {"copilot", "copilot-agent", "lm-studio"}
OperationModes == {"text", "hybrid", "screenshot"}

\* what executeBrowserAction can do from the loop's point of view:
\* resolve to a success string, resolve to a string the loop classifies
\* as an error, or reject
Outcomes == {"ok", "errorString", "throw"}

\* values the maxAgentLoops state can hold: the settings input stores
\* parseInt(text) || 500, so any integer but 0
LoopInputs == (-1..MaxLoopsInput) \ {0}

Min2(a, b) == IF a < b THEN a ELSE b
Max2(a, b) == IF a > b THEN a ELSE b

\* a number is finite or not; a finite number is given in halves, so that
\* 3 stands for 1.5
Whole(n) == [finite |-> TRUE, halves |-> 2 * n]
NotFinite == [finite |-> FALSE, halves |-> 0]

\* variant: the value is truncated
MathRound_floor(halves) == halves \div 2

\* Math.round: the nearest integer, a half goes up
MathRound(halves) == (halves + 1) \div 2

clampAgentLoops(value) ==
  IF ~value.finite
    THEN DEFAULT_AGENT_LOOPS
    ELSE Min2(MAX_AGENT_LOOPS,
              Max2(MIN_AGENT_LOOPS, MathRound(value.halves)))

----------------------------------------------------------------------------
VARIABLES
  pc,                     \* position of sendMessage
  isLoading,              \* React state isLoading
  abortController,        \* abortControllerRef.current: "null", "live", "aborted"
  provider,               \* settings.provider seen by this send cycle
  operationMode,          \* operationMode seen by this send cycle
  maxAgentLoops,          \* maxAgentLoops seen by this send cycle
  browserActionsEnabled,  \* browserActionsEnabled seen by this send cycle
  currentResponse,        \* the response text the loop parses next
  loopCount,
  consecutiveErrors,
  useScreenshotFallback,
  actions,                \* length of the parsed action list of this cycle
  actionIdx,              \* position of the for loop over actions
  errorCount,
  appended,               \* messages appended to the chat by this send cycle
  \* history variables
  fetchCalls,             \* calls of fetch(".../chat") in this send cycle
  requestsSent,           \* POST /chat requests that left the panel
  batches,                \* action batches executed to their end
  timesExecuted,          \* execution cycles started from currentResponse
  lastThree,              \* "had a failed action", last three cycles at most
  cycleHadError,          \* some action of the running cycle failed
  transportFailed,        \* the requests that failed: "initial", "continuation"
  cancelled,              \* stopGeneration aborted this send cycle
  zeroSeen,               \* some response of this cycle had no action
  exitReason,             \* how the while loop was left
  inFlight,               \* body of the POST /chat request awaiting its answer
  \* the action parser and the execution of one parsed batch
  responseText,           \* the text handed to parseActionsFromResponse
  scanIndex,              \* i, the scan position of its while loop
  parsedActions,          \* actions, the list it has built so far
  parsePc,                \* position of the parser and of the batch loop
  executed,               \* log of the batch loop: calls, results, delays
  \* the side panel with several sendMessage invocations
  isLoadingState,         \* isLoading, the React state
  pendingPrompt,          \* pendingPrompt, the React state
  rendered,               \* the state values the last render has captured
  renderDue,              \* a state update waits for its render
  effectPending,          \* the pending-prompt effect waits to be run
  pendingPromptDispatchRef,
  abortControllerRef,     \* 0, or the invocation whose controller it holds
  abortedControllers,     \* the invocations whose controller was aborted
  sends,                  \* the sendMessage invocations
  storageRead,            \* the mount effect has read the storage
  \* the page and its element references
  dom,                    \* the elements: in the page or not, visible, ref
  inViewport,             \* the elements near the viewport
  presented,              \* <<ref, element>> lines of the last snapshot
  resolved,               \* the last lookup of a ref and what it found
  \* the resolution of an action's target inside the page
  actionKind,             \* the kind of the action whose target is resolved
  target,                 \* sel, the target string handed to the executor
  lookup,                 \* how the target is looked up: by ref or selector
  elapsed,                \* Date.now() - start of the executor's wait
  stamped,                \* an element of the page carries the ref now
  resolution,             \* position and result of the resolution
  \* the result of one executor call and its classification by the loop
  result,                 \* what the executor returned: kind, what it reports, its text
  classifyPc,             \* position: "idle", "returned", "classified"
  counted,                \* the last result incremented errorCount
  cycleErrors,            \* errorCount of the cycle the results belong to
  resultsPushed,          \* length of actionResults
  \* the screenshot permission warning
  screenshotPermissionWarnedRef,\* screenshotPermissionWarnedRef.current
  chat,                   \* messages: the kinds of the chat messages, oldest first
  captureError,           \* the message of the last screenshot failure, <<>> for none
  warnedNow,              \* the last screenshot failure appended the warning
  \* the conversation history of one send cycle
  conversationHistory,    \* conversationHistory of sendMessage
  requestMessages,        \* messages of the body of the latest POST /chat
  previousMessages,       \* messages of the body of the request before it
  requestCount,           \* POST /chat requests made in this send cycle
  historyLoop,            \* loopCount of the send cycle
  historyPc,              \* position of sendMessage
  \* one executor acting on its target element in the page
  element,                \* the target: kind, checked, value, disabled, hidden, cancelsClick
  scrollY,                \* window.scrollY
  domAction,              \* the action under execution
  trace,                  \* events dispatched and checked changes of this execution
  domPc,                  \* position of the executor
  waited,                 \* Date.now() - start of waitForActionable
  isActionable,           \* what waitForActionable returned
  actionableAtClick,      \* the target was actionable when it was acted on
  domResult,              \* what the executor reports
  runs,                   \* executions of the action in succession
  afterFirst,             \* element and scrollY after the first execution
  disturbed,              \* the page changed by itself since the action began
  \* the loop budget of one send cycle
  storedLoops,            \* the value stored or entered for maxAgentLoops
  loopBudget,             \* safeMaxAgentLoops of the send cycle
  budgetLoop,             \* loopCount of the send cycle
  budgetPc,               \* "idle" or "loop"
  \* the file actions of one send cycle
  fileOperationsEnabled,  \* the setting as the send cycle sees it
  \* the responses collected, each a sequence of file markers
  assistantResponsesForFileActions,
  filesPc,                \* "idle", "initial", "loop", "files" or "done"
  fileCancelled,          \* stopGeneration ran in this send cycle
  processedFileMarkers,   \* the marker keys seen
  filePos,                \* markers gone through
  fileCalls,              \* the markers executeFileAction was called for, in order
  \* the context menu, the storage and the panel that reads it
  pendingAction,          \* the pendingAction in chrome.storage.local
  listenerPc,             \* the onClicked listener: "idle", "opening" or "writing"
  menuItem,               \* the prompt of the clicked menu item
  clicks,                 \* context-menu clicks so far
  panelOpen,              \* the side panel is open
  mountRead,              \* the storage read of the mount effect: "none", "issued" or "done"
  menuPrompt,             \* pendingPrompt of the open panel
  menuDispatchRef,        \* pendingPromptDispatchRef of the open panel
  menuLoading,            \* isLoading of the open panel
  menuSendFrom,           \* the prompt the running sendMessage was called with by the effect
  storedActions,          \* pendingActions written by the background script
  dispatched,             \* sendMessage calls of the pending-prompt effect
  \* the loggers injected into the page
  copilotConsolePatched,  \* window.__copilotConsolePatched
  copilotNetworkPatched,  \* window.__copilotNetworkPatched
  consoleWrappers,        \* wrappers installed around each console method
  networkWrappers,        \* wrappers installed around fetch and XMLHttpRequest.send
  copilotConsoleLogs,     \* window.__copilotConsoleLogs, each entry the number of its console call
  copilotNetworkLogs,     \* window.__copilotNetworkLogs, each entry the number of its request
  consoleCalls,           \* calls of the patched console methods
  requests,               \* requests made through the patched fetch and send
  loadendListeners,       \* loadend listeners on the XMLHttpRequest object the page reuses
  injections,             \* runs of ensureClientLoggers on this page
  \* the dialog functions of the page
  windowAlert,            \* window.alert: the handlers stacked on the native function, the newest last
  windowConfirm,          \* window.confirm, likewise
  windowPrompt,           \* window.prompt, likewise
  handlersSet,            \* handleDialog actions executed on this page
  dialogsSince,           \* dialogs opened since the last handleDialog
  lastDialog              \* who handled the last dialog and what it returned

loopVars == <<pc, isLoading, abortController, provider, operationMode,
          maxAgentLoops, browserActionsEnabled, currentResponse, loopCount,
          consecutiveErrors, useScreenshotFallback, actions, actionIdx,
          errorCount, appended, fetchCalls, requestsSent, batches,
          timesExecuted, lastThree, cycleHadError, transportFailed, cancelled,
          zeroSeen, exitReason, inFlight>>

parseVars == <<responseText, scanIndex, parsedActions, parsePc, executed>>

panelVars == <<isLoadingState, pendingPrompt, rendered, renderDue,
               effectPending, pendingPromptDispatchRef, abortControllerRef,
               abortedControllers, sends, storageRead>>

refsVars == <<dom, inViewport, presented, resolved>>

targetVars == <<actionKind, target, lookup, elapsed, stamped, resolution>>

resultVars == <<result, classifyPc, counted, cycleErrors, resultsPushed>>

warnVars == <<screenshotPermissionWarnedRef, chat, captureError, warnedNow>>

historyVars == <<conversationHistory, requestMessages, previousMessages, requestCount, historyLoop, historyPc>>

domVars == <<element, scrollY, domAction, trace, domPc, waited, isActionable, actionableAtClick, domResult, runs, afterFirst, disturbed>>

budgetVars == <<storedLoops, loopBudget, budgetLoop, budgetPc>>

fileVars == <<fileOperationsEnabled, assistantResponsesForFileActions, filesPc, fileCancelled, processedFileMarkers, filePos, fileCalls>>

menuVars == <<pendingAction, listenerPc, menuItem, clicks, panelOpen, mountRead, menuPrompt, menuDispatchRef, menuLoading, menuSendFrom, storedActions, dispatched>>

loggerVars == <<copilotConsolePatched, copilotNetworkPatched, consoleWrappers, networkWrappers, copilotConsoleLogs, copilotNetworkLogs, consoleCalls, requests, loadendListeners, injections>>

dialogVars == <<windowAlert, windowConfirm, windowPrompt, handlersSet, dialogsSince, lastDialog>>

\* the variables of the page models
pageVars == <<refsVars, targetVars, resultVars, warnVars, historyVars, domVars, budgetVars, fileVars, menuVars, loggerVars, dialogVars>>

outsideLoop == <<parseVars, panelVars, pageVars>>
outsideParse == <<loopVars, panelVars, pageVars>>
outsidePanel == <<loopVars, parseVars, pageVars>>
outsideRefs == <<loopVars, parseVars, panelVars, targetVars,
    resultVars,
    warnVars,
    historyVars,
    domVars,
    budgetVars,
    fileVars,
    menuVars,
    loggerVars,
    dialogVars>>
outsideTarget == <<loopVars, parseVars, panelVars, refsVars,
    resultVars,
    warnVars,
    historyVars,
    domVars,
    budgetVars,
    fileVars,
    menuVars,
    loggerVars,
    dialogVars>>
outsideResult == <<loopVars, parseVars, panelVars, refsVars, targetVars,
    warnVars,
    historyVars,
    domVars,
    budgetVars,
    fileVars,
    menuVars,
    loggerVars,
    dialogVars>>
outsideWarn == <<loopVars, parseVars, panelVars, refsVars, targetVars, resultVars,
    historyVars,
    domVars,
    budgetVars,
    fileVars,
    menuVars,
    loggerVars,
    dialogVars>>
outsideHistory == <<loopVars, parseVars, panelVars, refsVars, targetVars, resultVars, warnVars,
    domVars,
    budgetVars,
    fileVars,
    menuVars,
    loggerVars,
    dialogVars>>
outsideDom == <<loopVars, parseVars, panelVars, refsVars, targetVars, resultVars, warnVars, historyVars,
    budgetVars,
    fileVars,
    menuVars,
    loggerVars,
    dialogVars>>
outsideBudget == <<loopVars, parseVars, panelVars, refsVars, targetVars, resultVars, warnVars, historyVars, domVars,
    fileVars,
    menuVars,
    loggerVars,
    dialogVars>>
outsideFiles == <<loopVars, parseVars, panelVars, refsVars, targetVars, resultVars, warnVars, historyVars, domVars, budgetVars,
    menuVars,
    loggerVars,
    dialogVars>>
outsideMenu == <<loopVars, parseVars, panelVars, refsVars, targetVars, resultVars, warnVars, historyVars, domVars, budgetVars, fileVars,
    loggerVars,
    dialogVars>>
outsideLogger == <<loopVars, parseVars, panelVars, refsVars, targetVars, resultVars, warnVars, historyVars, domVars, budgetVars, fileVars, menuVars,
    dialogVars>>
outsideDialog == <<loopVars, parseVars, panelVars, refsVars, targetVars, resultVars, warnVars, historyVars, domVars, budgetVars, fileVars, menuVars, loggerVars>>

vars == <<loopVars, parseVars, panelVars, pageVars>>

config == <<provider, operationMode, maxAgentLoops, browserActionsEnabled>>
loopLocals == <<loopCount, consecutiveErrors, useScreenshotFallback,
                actions, actionIdx, errorCount>>
history == <<fetchCalls, requestsSent, batches, timesExecuted, lastThree,
             cycleHadError, transportFailed, cancelled, zeroSeen,
             exitReason>>

NoRequest == [kind |-> "none", operationMode |-> "none", screenshot |-> FALSE]

NoResponse == [id |-> 0, kind |-> "none", n |-> 0, completion |-> FALSE]

safeMaxAgentLoops == clampAgentLoops(Whole(maxAgentLoops))

LastN(seq, k) ==
  IF Len(seq) <= k THEN seq ELSE SubSeq(seq, Len(seq) - k + 1, Len(seq))

Count(seq, kind) == Cardinality({i \in 1..Len(seq) : seq[i] = kind})

\* the positions at which sendMessage is suspended in an await
AwaitPoints == {"GetContent", "AwaitInitial", "Exec", "Refresh",
                "AwaitContinue", "FileActions"}

\* the parser has no text to work on
ParserOff ==
  /\ responseText = <<>>
  /\ scanIndex = 0
  /\ parsedActions = <<>>
  /\ parsePc = "off"
  /\ executed = <<>>

\* the side panel after mount: no send cycle is running
PanelIdle ==
  /\ pc = "Idle"
  /\ isLoading = FALSE
  /\ abortController = "null"
  /\ provider = "copilot"
  /\ operationMode = "text"
  /\ maxAgentLoops = DEFAULT_AGENT_LOOPS
  /\ browserActionsEnabled = TRUE
  /\ currentResponse = NoResponse
  /\ loopCount = 0
  /\ consecutiveErrors = 0
  /\ useScreenshotFallback = FALSE
  /\ actions = 0
  /\ actionIdx = 0
  /\ errorCount = 0
  /\ appended = <<>>
  /\ fetchCalls = 0
  /\ requestsSent = 0
  /\ batches = 0
  /\ timesExecuted = 0
  /\ lastThree = <<>>
  /\ cycleHadError = FALSE
  /\ transportFailed = {}
  /\ cancelled = FALSE
  /\ zeroSeen = FALSE
  /\ exitReason = "none"
  /\ inFlight = NoRequest

\* sendMessage invocations in one behaviour
MaxSends == 3

Sends == 1..MaxSends
Prompts == {"summarize", "question"}

Unused == [pc |-> "unused", fromEffect |-> "none"]

PanelMounted ==
  /\ isLoadingState = FALSE
  /\ pendingPrompt = "none"
  /\ rendered = [isLoading |-> FALSE, pendingPrompt |-> "none"]
  /\ renderDue = FALSE
  /\ effectPending = FALSE
  /\ pendingPromptDispatchRef = "none"
  /\ abortControllerRef = 0
  /\ abortedControllers = {}
  /\ sends = [i \in Sends |-> Unused]
  /\ storageRead = FALSE

\* elements and bounds of the page models
MaxElems == 3
Elems == 1..MaxElems
NoRef == -1
Absent == [state |-> "absent", ref |-> NoRef]

\* no page is looked at
RefsOff ==
  /\ dom = [e \in Elems |-> Absent]
  /\ inViewport = {}
  /\ presented = {}
  /\ resolved = [ref |-> NoRef, element |-> 0]

\* no target is being resolved
TargetOff ==
  /\ actionKind = "none"
  /\ target = <<>>
  /\ lookup = [mode |-> "none", ref |-> <<>>]
  /\ elapsed = 0
  /\ stamped = FALSE
  /\ resolution = "idle"

NoResult == [kind |-> "none", reports |-> "none", text |-> <<>>]

\* no executor has returned a result
ResultOff ==
  /\ result = NoResult
  /\ classifyPc = "idle"
  /\ counted = FALSE
  /\ cycleErrors = 0
  /\ resultsPushed = 0

\* the panel is mounted, no screenshot has failed
WarnOff ==
  /\ screenshotPermissionWarnedRef = FALSE
  /\ chat = <<>>
  /\ captureError = <<>>
  /\ warnedNow = FALSE

\* no send cycle is running
HistoryOff ==
  /\ conversationHistory = <<>>
  /\ requestMessages = <<>>
  /\ previousMessages = <<>>
  /\ requestCount = 0
  /\ historyLoop = 0
  /\ historyPc = "idle"

NoElement == [kind |-> "none"]
NoAction == [kind |-> "none"]

\* no page is loaded
DomOff ==
  /\ element = NoElement
  /\ scrollY = 0
  /\ domAction = NoAction
  /\ trace = <<>>
  /\ domPc = "unloaded"
  /\ waited = 0
  /\ isActionable = FALSE
  /\ actionableAtClick = FALSE
  /\ domResult = "none"
  /\ runs = 0
  /\ afterFirst = <<>>
  /\ disturbed = FALSE

\* no send cycle has computed its budget
BudgetOff ==
  /\ storedLoops = NotFinite
  /\ loopBudget = 0
  /\ budgetLoop = 0
  /\ budgetPc = "idle"

\* no send cycle has collected a response
FilesOff ==
  /\ fileOperationsEnabled = TRUE
  /\ assistantResponsesForFileActions = <<>>
  /\ filesPc = "idle"
  /\ fileCancelled = FALSE
  /\ processedFileMarkers = {}
  /\ filePos = 0
  /\ fileCalls = <<>>

\* the panel is closed, nothing is stored
MenuOff ==
  /\ pendingAction = "none"
  /\ listenerPc = "idle"
  /\ menuItem = "none"
  /\ clicks = 0
  /\ panelOpen = FALSE
  /\ mountRead = "none"
  /\ menuPrompt = "none"
  /\ menuDispatchRef = "none"
  /\ menuLoading = FALSE
  /\ menuSendFrom = "none"
  /\ storedActions = 0
  /\ dispatched = 0

\* a page without loggers
LoggerOff ==
  /\ copilotConsolePatched = FALSE
  /\ copilotNetworkPatched = FALSE
  /\ consoleWrappers = 0
  /\ networkWrappers = 0
  /\ copilotConsoleLogs = <<>>
  /\ copilotNetworkLogs = <<>>
  /\ consoleCalls = 0
  /\ requests = 0
  /\ loadendListeners = 0
  /\ injections = 0

NoDialog == [kind |-> "none", by |-> "none", returns |-> "none"]

\* a page with its native dialog functions
DialogOff ==
  /\ windowAlert = <<>>
  /\ windowConfirm = <<>>
  /\ windowPrompt = <<>>
  /\ handlersSet = 0
  /\ dialogsSince = 0
  /\ lastDialog = NoDialog

PageOff == RefsOff /\ TargetOff /\ ResultOff /\ WarnOff /\ HistoryOff /\ DomOff /\ BudgetOff /\ FilesOff /\ MenuOff /\ LoggerOff /\ DialogOff

Init == PanelIdle /\ ParserOff /\ PanelMounted /\ PageOff

----------------------------------------------------------------------------
(* fetch with an AbortSignal: a request leaves the panel only when the     *)
(* signal is not aborted; with an aborted signal fetch rejects with an     *)
(* AbortError before any network activity.                                 *)
FetchSends_ignoresSignal(controller) == TRUE

FetchSends(controller) == controller # "aborted"

\* isCompletion (computed only when no action was found)
isCompletion(response) == response.completion

\* variant: only a completion phrase ends the loop, any other text
\* without actions is answered by a new request
ZeroActionsBreaks_onCompletionOnly(response) == isCompletion(response)

\* the branch on isCompletion: both arms log and break
ZeroActionsBreaks(response) ==
  IF isCompletion(response) THEN TRUE ELSE TRUE

\* variant: the guard lets one more iteration through
LoopGuard_inclusive(count, budget, controller) ==
  count <= budget /\ controller # "aborted"

\* the guard of the while loop
LoopGuard(count, budget, controller) ==
  count < budget /\ controller # "aborted"

\* an action result counts as an error when its text contains
\* "not found", "Error" or "error", or when the call rejected
IsErrorOutcome(outcome) == outcome \in {"errorString", "throw"}

\* the report after the while loop
BudgetReport(msgs, count, budget) ==
  IF count >= budget THEN Append(msgs, "maxAgentLoopsReached") ELSE msgs

\* consecutiveErrors after a cycle with errs error results
NextConsecutiveErrors(errs, consecutive) ==
  IF errs > 0 THEN consecutive + 1 ELSE 0

\* variant: the fallback does not change the mode named in the request
RequestMode_configured(fallback, mode) == mode

\* the operationMode field of a continuation request
RequestMode(fallback, mode) == IF fallback THEN "screenshot" ELSE mode

\* the screenshot field of a request: present when a capture was attempted
\* and captureScreenshot resolved
RequestScreenshot(attempted, captureOk) == attempted /\ captureOk

\* variant: the fallback is switched on after two erroring cycles
NextFallback_afterTwo(mode, errs, consecutive, fallback) ==
  IF /\ errs > 0
     /\ mode = "hybrid"
     /\ NextConsecutiveErrors(errs, consecutive) >= 2
     /\ ~fallback
    THEN TRUE
    ELSE fallback

\* variant: a cycle without errors switches the fallback off again
NextFallback_reverts(mode, errs, consecutive, fallback) ==
  IF /\ errs > 0
     /\ mode = "hybrid"
     /\ NextConsecutiveErrors(errs, consecutive) >= 3
     /\ ~fallback
    THEN TRUE
    ELSE IF errs = 0 /\ mode = "hybrid" THEN FALSE ELSE fallback

\* useScreenshotFallback after a cycle
NextFallback(mode, errs, consecutive, fallback) ==
  IF /\ errs > 0
     /\ mode = "hybrid"
     /\ NextConsecutiveErrors(errs, consecutive) >= 3
     /\ ~fallback
    THEN TRUE
    ELSE fallback

\* variant: every provider continues
ContinuesAfterCycle_always(p) == TRUE

\* "Only continue autonomous loop in agent mode"
ContinuesAfterCycle(p) == p = "copilot-agent"

\* leaving the while loop: the budget report runs, then the file actions
LeaveLoop(reason, msgs) ==
  /\ pc' = "FileActions"
  /\ exitReason' = reason
  /\ appended' = BudgetReport(msgs, loopCount, safeMaxAgentLoops)

\* variant: the catch returns without the cleanup of the finally block
OuterCatch_noFinally(isAbortError, msgs) ==
  /\ pc' = "Idle"
  /\ appended' = IF isAbortError THEN msgs
                 ELSE Append(msgs, "connectionError")

\* the outer catch: silent for an AbortError, connectionError otherwise
OuterCatch(isAbortError, msgs) ==
  /\ pc' = "Finally"
  /\ appended' = IF isAbortError THEN msgs
                 ELSE Append(msgs, "connectionError")

----------------------------------------------------------------------------
(* sendMessage up to the first await *)
SendMessage(userMessage, p, mode, loops, enabled) ==
  /\ pc = "Idle"
  /\ ~isLoading
  /\ IF userMessage = ""
       THEN UNCHANGED vars
       ELSE /\ pc' = "GetContent"
            /\ isLoading' = TRUE
            /\ abortController' = "live"
            /\ provider' = p
            /\ operationMode' = mode
            /\ maxAgentLoops' = loops
            /\ browserActionsEnabled' = enabled
            /\ appended' = <<"user">>
            /\ UNCHANGED <<currentResponse, loopLocals, history, inFlight>>
  /\ UNCHANGED outsideLoop

(* stopGeneration, run while sendMessage is suspended *)
StopGeneration ==
  /\ abortController = "live"
  /\ pc \in AwaitPoints
  /\ abortController' = "aborted"
  /\ cancelled' = TRUE
  /\ UNCHANGED <<pc, isLoading, config, currentResponse, loopLocals, appended,
                 fetchCalls, requestsSent, batches, timesExecuted, lastThree,
                 cycleHadError, transportFailed, zeroSeen, exitReason>>
  /\ UNCHANGED <<inFlight, outsideLoop>>

(* page content obtained; the initial fetch is called *)
InitialFetch(captureOk) ==
  /\ pc = "GetContent"
  /\ fetchCalls' = fetchCalls + 1
  /\ IF FetchSends(abortController)
       THEN /\ requestsSent' = requestsSent + 1
            /\ pc' = "AwaitInitial"
            /\ inFlight' =
                 [kind |-> "initial",
                  operationMode |-> operationMode,
                  screenshot |->
                    RequestScreenshot(operationMode = "screenshot", captureOk)]
            /\ UNCHANGED appended
       ELSE /\ OuterCatch(TRUE, appended)
            /\ UNCHANGED <<requestsSent, inFlight>>
  /\ UNCHANGED <<isLoading, abortController, config, currentResponse,
                 loopLocals, batches, timesExecuted, lastThree,
                 cycleHadError, transportFailed, cancelled, zeroSeen,
                 exitReason>>
  /\ UNCHANGED outsideLoop

(* the initial request is aborted while in flight or while streaming *)
InitialAborted ==
  /\ pc = "AwaitInitial"
  /\ abortController = "aborted"
  /\ OuterCatch(TRUE, appended)
  /\ UNCHANGED <<isLoading, abortController, config, currentResponse,
                 loopLocals, history>>
  /\ inFlight' = NoRequest
  /\ UNCHANGED outsideLoop

(* the initial request fails: fetch rejects, the response is not ok, the  *)
(* response has no body, or a read of the stream rejects                   *)
InitialFails(failure) ==
  /\ pc = "AwaitInitial"
  /\ failure \in {"reject", "notOk", "noBody", "streamError"}
  /\ transportFailed' = transportFailed \cup {"initial"}
  /\ OuterCatch(FALSE, IF failure = "streamError"
                         THEN Append(appended, "assistant") ELSE appended)
  /\ UNCHANGED <<isLoading, abortController, config, currentResponse,
                 loopLocals, fetchCalls, requestsSent, batches, timesExecuted,
                 lastThree, cycleHadError, cancelled, zeroSeen, exitReason>>
  /\ inFlight' = NoRequest
  /\ UNCHANGED outsideLoop

(* the initial response is empty after trim: report and return *)
InitialEmpty ==
  /\ pc = "AwaitInitial"
  /\ pc' = "Finally"
  /\ appended' = Append(appended, "emptyServerResponse")
  /\ zeroSeen' = TRUE
  /\ UNCHANGED <<isLoading, abortController, config, currentResponse,
                 loopLocals, fetchCalls, requestsSent, batches, timesExecuted,
                 lastThree, cycleHadError, transportFailed, cancelled,
                 exitReason>>
  /\ inFlight' = NoRequest
  /\ UNCHANGED outsideLoop

(* the initial response is streamed to its end; the loop state is set up *)
InitialText(n, completion) ==
  /\ pc = "AwaitInitial"
  /\ appended' = Append(appended, "assistant")
  /\ currentResponse' = [id |-> 1, kind |-> "text", n |-> n,
                         completion |-> completion]
  /\ timesExecuted' = 0
  /\ zeroSeen' = (n = 0)
  /\ IF browserActionsEnabled
       THEN /\ pc' = "LoopHead"
            /\ loopCount' = 0
            /\ consecutiveErrors' = 0
            /\ useScreenshotFallback' = (operationMode = "screenshot")
       ELSE /\ pc' = "FileActions"
            /\ UNCHANGED <<loopCount, consecutiveErrors,
                           useScreenshotFallback>>
  /\ UNCHANGED <<isLoading, abortController, config, actions, actionIdx,
                 errorCount, fetchCalls, requestsSent, batches, lastThree,
                 cycleHadError, transportFailed, cancelled, exitReason>>
  /\ inFlight' = NoRequest
  /\ UNCHANGED outsideLoop

----------------------------------------------------------------------------
(* head of the while loop: guard, parse, zero-action branch, loopCount++ *)
LoopHead ==
  /\ pc = "LoopHead"
  /\ IF ~LoopGuard(loopCount, safeMaxAgentLoops, abortController)
       THEN /\ LeaveLoop(IF loopCount >= safeMaxAgentLoops
                           THEN "budget" ELSE "aborted", appended)
            /\ UNCHANGED <<loopLocals, cycleHadError, timesExecuted>>
       ELSE IF currentResponse.n = 0
         THEN /\ IF ZeroActionsBreaks(currentResponse)
                   THEN LeaveLoop("noActions", appended)
                   ELSE pc' = "Refresh" /\ UNCHANGED <<appended, exitReason>>
              /\ actions' = 0
              /\ UNCHANGED <<loopCount, consecutiveErrors,
                             useScreenshotFallback, actionIdx, errorCount,
                             cycleHadError, timesExecuted>>
         ELSE /\ pc' = "Exec"
              /\ loopCount' = loopCount + 1
              /\ actions' = currentResponse.n
              /\ actionIdx' = 1
              /\ errorCount' = 0
              /\ cycleHadError' = FALSE
              /\ timesExecuted' = timesExecuted + 1
              /\ UNCHANGED <<consecutiveErrors, useScreenshotFallback,
                             appended, exitReason>>
  /\ UNCHANGED <<isLoading, abortController, config, currentResponse,
                 fetchCalls, requestsSent, batches, lastThree,
                 transportFailed, cancelled, zeroSeen>>
  /\ UNCHANGED <<inFlight, outsideLoop>>

(* one iteration of the for loop: executeBrowserAction, classify the      *)
(* result, wait 80-200 ms                                                  *)
ExecuteAction(outcome) ==
  /\ pc = "Exec"
  /\ actionIdx <= actions
  /\ errorCount' = IF IsErrorOutcome(outcome) THEN errorCount + 1
                   ELSE errorCount
  /\ cycleHadError' = (cycleHadError \/ outcome # "ok")
  /\ actionIdx' = actionIdx + 1
  /\ pc' = IF actionIdx = actions THEN "CycleEnd" ELSE "Exec"
  /\ UNCHANGED <<isLoading, abortController, config, currentResponse,
                 loopCount, consecutiveErrors, useScreenshotFallback, actions,
                 appended, fetchCalls, requestsSent, batches, timesExecuted,
                 lastThree, transportFailed, cancelled, zeroSeen, exitReason>>
  /\ UNCHANGED <<inFlight, outsideLoop>>

(* after the for loop: consecutive errors, hybrid fallback, result         *)
(* message, provider check                                                 *)
CycleEnd ==
  /\ pc = "CycleEnd"
  /\ consecutiveErrors' = NextConsecutiveErrors(errorCount, consecutiveErrors)
  /\ useScreenshotFallback' =
       NextFallback(operationMode, errorCount, consecutiveErrors,
                    useScreenshotFallback)
  /\ lastThree' = LastN(Append(lastThree, cycleHadError), 3)
  /\ batches' = batches + 1
  /\ IF ContinuesAfterCycle(provider)
       THEN /\ pc' = "Refresh"
            /\ appended' = Append(appended, "executionResult")
            /\ UNCHANGED exitReason
       ELSE LeaveLoop("nonAgent", Append(appended, "executionResult"))
  /\ UNCHANGED <<isLoading, abortController, config, currentResponse,
                 loopCount, actions, actionIdx, errorCount, fetchCalls,
                 requestsSent, timesExecuted, cycleHadError,
                 transportFailed, cancelled, zeroSeen>>
  /\ UNCHANGED <<inFlight, outsideLoop>>

(* the pause and the page refresh are over; the continuation fetch is     *)
(* called                                                                  *)
ContinueFetch(captureOk) ==
  /\ pc = "Refresh"
  /\ fetchCalls' = fetchCalls + 1
  /\ IF FetchSends(abortController)
       THEN /\ requestsSent' = requestsSent + 1
            /\ pc' = "AwaitContinue"
            /\ inFlight' =
                 [kind |-> "continuation",
                  operationMode |->
                    RequestMode(useScreenshotFallback, operationMode),
                  screenshot |->
                    RequestScreenshot(useScreenshotFallback, captureOk)]
            /\ UNCHANGED <<appended, exitReason>>
       ELSE /\ LeaveLoop("abortError", appended)
            /\ UNCHANGED <<requestsSent, inFlight>>
  /\ UNCHANGED <<isLoading, abortController, config, currentResponse,
                 loopLocals, batches, timesExecuted, lastThree,
                 cycleHadError, transportFailed, cancelled, zeroSeen>>
  /\ UNCHANGED outsideLoop

(* the continuation request is aborted in flight or while streaming *)
ContinueAborted ==
  /\ pc = "AwaitContinue"
  /\ abortController = "aborted"
  /\ LeaveLoop("abortError", appended)
  /\ UNCHANGED <<isLoading, abortController, config, currentResponse,
                 loopLocals, fetchCalls, requestsSent, batches, timesExecuted,
                 lastThree, cycleHadError, transportFailed, cancelled,
                 zeroSeen>>
  /\ inFlight' = NoRequest
  /\ UNCHANGED outsideLoop

(* fetch of the continuation rejects (bridge unreachable): the inner      *)
(* catch logs and the while loop goes on with currentResponse unchanged    *)
ContinueRejects ==
  /\ pc = "AwaitContinue"
  /\ transportFailed' = transportFailed \cup {"continuation"}
  /\ pc' = "LoopHead"
  /\ UNCHANGED <<isLoading, abortController, config, currentResponse,
                 loopLocals, appended, fetchCalls, requestsSent, batches,
                 timesExecuted, lastThree, cycleHadError, cancelled, zeroSeen,
                 exitReason>>
  /\ inFlight' = NoRequest
  /\ UNCHANGED outsideLoop

(* the continuation response is not ok or has no body: break *)
ContinueNotOk(failure) ==
  /\ pc = "AwaitContinue"
  /\ failure \in {"notOk", "noBody"}
  /\ transportFailed' = transportFailed \cup {"continuation"}
  /\ LeaveLoop("contFailed", appended)
  /\ UNCHANGED <<isLoading, abortController, config, currentResponse,
                 loopLocals, fetchCalls, requestsSent, batches, timesExecuted,
                 lastThree, cycleHadError, cancelled, zeroSeen>>
  /\ inFlight' = NoRequest
  /\ UNCHANGED outsideLoop

(* a read of the continuation stream rejects: currentResponse holds what  *)
(* was read so far, the inner catch logs and the loop goes on              *)
ContinueStreamError(n, completion) ==
  /\ pc = "AwaitContinue"
  /\ transportFailed' = transportFailed \cup {"continuation"}
  /\ currentResponse' = [id |-> currentResponse.id + 1, kind |-> "partial",
                         n |-> n, completion |-> completion]
  /\ timesExecuted' = 0
  /\ appended' = Append(appended, "assistant")
  /\ pc' = "LoopHead"
  /\ UNCHANGED <<isLoading, abortController, config, loopLocals, fetchCalls,
                 requestsSent, batches, lastThree, cycleHadError,
                 cancelled, zeroSeen, exitReason>>
  /\ inFlight' = NoRequest
  /\ UNCHANGED outsideLoop

(* the continuation response is empty after trim: report and break *)
ContinueEmpty ==
  /\ pc = "AwaitContinue"
  /\ currentResponse' = [id |-> currentResponse.id + 1, kind |-> "empty",
                         n |-> 0, completion |-> FALSE]
  /\ timesExecuted' = 0
  /\ zeroSeen' = TRUE
  /\ LeaveLoop("emptyCont", Append(appended, "emptyContinuationResponse"))
  /\ UNCHANGED <<isLoading, abortController, config, loopLocals, fetchCalls,
                 requestsSent, batches, lastThree, cycleHadError,
                 transportFailed, cancelled>>
  /\ inFlight' = NoRequest
  /\ UNCHANGED outsideLoop

(* the continuation response is streamed to its end *)
ContinueText(n, completion) ==
  /\ pc = "AwaitContinue"
  /\ currentResponse' = [id |-> currentResponse.id + 1, kind |-> "text",
                         n |-> n, completion |-> completion]
  /\ timesExecuted' = 0
  /\ zeroSeen' = (zeroSeen \/ n = 0)
  /\ appended' = Append(appended, "assistant")
  /\ pc' = "LoopHead"
  /\ UNCHANGED <<isLoading, abortController, config, loopLocals, fetchCalls,
                 requestsSent, batches, lastThree, cycleHadError,
                 transportFailed, cancelled, exitReason>>
  /\ inFlight' = NoRequest
  /\ UNCHANGED outsideLoop

(* the file actions of the collected responses *)
FileActions ==
  /\ pc = "FileActions"
  /\ pc' = "Finally"
  /\ UNCHANGED <<isLoading, abortController, config, currentResponse,
                 loopLocals, appended, history>>
  /\ UNCHANGED <<inFlight, outsideLoop>>

(* finally: the send cycle is over, its locals are gone *)
Finally ==
  /\ pc = "Finally"
  /\ pc' = "Idle"
  /\ isLoading' = FALSE
  /\ abortController' = "null"
  /\ currentResponse' = NoResponse
  /\ loopCount' = 0
  /\ consecutiveErrors' = 0
  /\ useScreenshotFallback' = FALSE
  /\ actions' = 0
  /\ actionIdx' = 0
  /\ errorCount' = 0
  /\ appended' = <<>>
  /\ fetchCalls' = 0
  /\ requestsSent' = 0
  /\ batches' = 0
  /\ timesExecuted' = 0
  /\ lastThree' = <<>>
  /\ cycleHadError' = FALSE
  /\ transportFailed' = {}
  /\ cancelled' = FALSE
  /\ zeroSeen' = FALSE
  /\ exitReason' = "none"
  /\ UNCHANGED config
  /\ inFlight' = NoRequest
  /\ UNCHANGED outsideLoop

----------------------------------------------------------------------------
Next ==
  \/ \E userMessage \in {"", "go"}, p \in Providers, mode \in OperationModes,
        loops \in LoopInputs, enabled \in BOOLEAN :
       SendMessage(userMessage, p, mode, loops, enabled)
  \/ StopGeneration
  \/ \E captureOk \in BOOLEAN : InitialFetch(captureOk)
  \/ InitialAborted
  \/ \E failure \in {"reject", "notOk", "noBody", "streamError"} :
       InitialFails(failure)
  \/ InitialEmpty
  \/ \E n \in 0..MaxActions, completion \in BOOLEAN : InitialText(n, completion)
  \/ LoopHead
  \/ \E outcome \in Outcomes : ExecuteAction(outcome)
  \/ CycleEnd
  \/ \E captureOk \in BOOLEAN : ContinueFetch(captureOk)
  \/ ContinueAborted
  \/ ContinueRejects
  \/ \E failure \in {"notOk", "noBody"} : ContinueNotOk(failure)
  \/ \E n \in 0..MaxActions, completion \in BOOLEAN :
       ContinueStreamError(n, completion)
  \/ ContinueEmpty
  \/ \E n \in 0..MaxActions, completion \in BOOLEAN : ContinueText(n, completion)
  \/ FileActions
  \/ Finally

Spec == Init /\ [][Next]_vars

\* the steps sendMessage takes by itself: each is the continuation of an
\* await that has settled or of synchronous code
CycleStep ==
  \/ \E captureOk \in BOOLEAN : InitialFetch(captureOk)
  \/ InitialAborted
  \/ \E failure \in {"reject", "notOk", "noBody", "streamError"} :
       InitialFails(failure)
  \/ InitialEmpty
  \/ \E n \in 0..MaxActions, completion \in BOOLEAN : InitialText(n, completion)
  \/ LoopHead
  \/ \E outcome \in Outcomes : ExecuteAction(outcome)
  \/ CycleEnd
  \/ \E captureOk \in BOOLEAN : ContinueFetch(captureOk)
  \/ ContinueAborted
  \/ ContinueRejects
  \/ \E failure \in {"notOk", "noBody"} : ContinueNotOk(failure)
  \/ \E n \in 0..MaxActions, completion \in BOOLEAN :
       ContinueStreamError(n, completion)
  \/ ContinueEmpty
  \/ \E n \in 0..MaxActions, completion \in BOOLEAN : ContinueText(n, completion)
  \/ FileActions
  \/ Finally

\* every awaited call eventually settles and the event loop runs the
\* continuation
SpecLive == Spec /\ WF_vars(CycleStep)

TypeOK ==
  /\ pc \in {"Idle", "GetContent", "AwaitInitial", "LoopHead", "Exec",
             "CycleEnd", "Refresh", "AwaitContinue", "FileActions",
             "Finally"}
  /\ isLoading \in BOOLEAN
  /\ abortController \in {"null", "live", "aborted"}
  /\ provider \in Providers
  /\ operationMode \in OperationModes
  /\ loopCount \in 0..safeMaxAgentLoops
  /\ actionIdx \in 0..MaxActions + 1

----------------------------------------------------------------------------
(* The action parser.  A text is a sequence of tokens; a token stands for  *)
(* a run of characters that the parser never looks into, and the marker    *)
(* is one token.  Positions are 1-based, 0 stands for indexOf's -1.        *)

Marker == "[ACTION:"

\* bounds of the parser's inputs
MaxEntries == 2
MaxParamLen == 5

SetMin(S) == CHOOSE m \in S : \A k \in S : m <= k

\* text.indexOf(token, from)
IndexOf(text, token, from) ==
  LET hits == {k \in from..Len(text) : text[k] = token}
  IN IF hits = {} THEN 0 ELSE SetMin(hits)

\* text.trim()
Trim(text) ==
  LET solid == {k \in 1..Len(text) : text[k] # " "}
  IN IF solid = {}
       THEN <<>>
       ELSE SubSeq(text, SetMin(solid),
                   CHOOSE m \in solid : \A k \in solid : m >= k)

\* text.split(",").map((s) => s.trim())
RECURSIVE SplitTrim(_)
SplitTrim(text) ==
  LET comma == IndexOf(text, ",", 1)
  IN IF comma = 0
       THEN <<Trim(text)>>
       ELSE <<Trim(SubSeq(text, 1, comma - 1))>>
              \o SplitTrim(SubSeq(text, comma + 1, Len(text)))

\* parts.join(",")
RECURSIVE Join(_)
Join(parts) ==
  IF parts = <<>> THEN <<>>
  ELSE IF Len(parts) = 1 THEN parts[1]
  ELSE parts[1] \o <<",">> \o Join(Tail(parts))

\* token.toLowerCase(), for the tokens of the input sets
ToLowerCase(token) ==
  CASE token = "clickXY" -> "clickxy"
    [] token = "SUBMIT" -> "submit"
    [] OTHER -> token

\* Number(part): 0 for the empty string, the value of a numeral, else NaN;
\* a part that split() did not produce is undefined and gives NaN
NaN == -1
Numerals == {"5", "7"}
NumeralValue(token) == IF token = "5" THEN 5 ELSE 7
Number(parts, k) ==
  IF k > Len(parts) THEN NaN
  ELSE IF parts[k] = <<>> THEN 0
  ELSE IF Len(parts[k]) = 1 /\ parts[k][1] \in Numerals
    THEN NumeralValue(parts[k][1])
  ELSE NaN

\* parts[k], the empty text where split() gave no such part (undefined)
Part(parts, k) == IF k > Len(parts) THEN <<>> ELSE parts[k]

Null == [type |-> "null"]

\* the while loop of case "type" that pops trailing flag keywords
RECURSIVE PopFlags(_)
PopFlags(st) ==
  IF Len(st.parts) > 1
    THEN LET last == st.parts[Len(st.parts)]
             word == IF Len(last) = 1 THEN ToLowerCase(last[1]) ELSE ""
             rest == SubSeq(st.parts, 1, Len(st.parts) - 1)
         IN IF word = "submit"
              THEN PopFlags([st EXCEPT !.parts = rest, !.submit = TRUE])
            ELSE IF word \in {"slowly", "slow"}
              THEN PopFlags([st EXCEPT !.parts = rest, !.slowly = TRUE])
            ELSE st
    ELSE st

\* parseAction(type, params) for params that are no JSON text; params
\* undefined and params "" take the same branches and are both <<>>
parseAction(type, params) ==
  LET trimmedParams == Trim(params)
      parts == SplitTrim(trimmedParams)
  IN
  CASE type \in {"navigate", "goto", "open"} ->
         IF trimmedParams # <<>>
           THEN [type |-> "navigate", url |-> trimmedParams]
           ELSE Null
    [] type = "click" ->
         IF trimmedParams # <<>>
           THEN [type |-> "click", selector |-> trimmedParams]
           ELSE Null
    [] type \in {"type", "input"} ->
         IF trimmedParams = <<>> \/ parts[1] = <<>>
           THEN Null
           ELSE LET st == PopFlags([parts |-> Tail(parts),
                                    submit |-> FALSE, slowly |-> FALSE])
                    text == Trim(Join(st.parts))
                IN IF text # <<>>
                     THEN [type |-> "type", selector |-> parts[1],
                           text |-> text, submit |-> st.submit,
                           slowly |-> st.slowly]
                     ELSE Null
    [] type = "scroll" ->
         [type |-> "scroll",
          direction |-> IF trimmedParams = <<"up">> THEN "up" ELSE "down"]
    [] type = "select" ->
         IF Part(parts, 1) # <<>> /\ Part(parts, 2) # <<>>
           THEN [type |-> "select", selector |-> parts[1],
                 value |-> parts[2]]
           ELSE Null
    [] type = "drag" ->
         IF Part(parts, 1) # <<>> /\ Part(parts, 2) # <<>>
           THEN [type |-> "drag", startSelector |-> parts[1],
                 endSelector |-> parts[2]]
           ELSE Null
    [] type = "clickxy" ->
         IF trimmedParams = <<>>
           THEN Null
           ELSE IF Number(parts, 1) # NaN /\ Number(parts, 2) # NaN
             THEN [type |-> "clickXY", x |-> Number(parts, 1),
                   y |-> Number(parts, 2)]
             ELSE Null
    [] type = "evaluate" ->
         IF trimmedParams = <<>>
           THEN Null
           ELSE LET firstComma == IndexOf(trimmedParams, ",", 1)
                    script == Trim(SubSeq(trimmedParams, firstComma + 1,
                                          Len(trimmedParams)))
                IN IF firstComma > 1
                     THEN IF script # <<>>
                            THEN [type |-> "evaluate",
                                  selector |->
                                    Trim(SubSeq(trimmedParams, 1,
                                                firstComma - 1)),
                                  script |-> script]
                            ELSE Null
                     ELSE [type |-> "evaluate", script |-> trimmedParams]
    [] OTHER -> Null

\* the inner while loop: from position j with the given depth, to the
\* position after the bracket that closes the entry, or to the end
RECURSIVE ScanClose(_, _, _)
ScanClose(text, j, depth) ==
  IF j <= Len(text) /\ depth > 0
    THEN ScanClose(text, j + 1,
                   IF text[j] \in {"[", Marker} THEN depth + 1
                   ELSE IF text[j] = "]" THEN depth - 1
                   ELSE depth)
    ELSE [j |-> j, depth |-> depth]

\* actionType.toLowerCase(); a type of several tokens matches no case
TypeName(actionType) ==
  IF Len(actionType) = 1 THEN ToLowerCase(actionType[1]) ELSE "?"

\* the action of the entry whose content is actionContent
EntryAction(actionContent) ==
  LET firstComma == IndexOf(actionContent, ",", 1)
  IN IF firstComma > 1
       THEN parseAction(
              TypeName(Trim(SubSeq(actionContent, 1, firstComma - 1))),
              Trim(SubSeq(actionContent, firstComma + 1, Len(actionContent))))
       ELSE parseAction(TypeName(Trim(actionContent)), <<>>)

\* variant: a parsed action is put in front of the list
Push_front(list, action) == <<action>> \o list

\* actions.push(parsedAction)
Push(list, action) == Append(list, action)

\* one iteration of the outer while loop that finds a marker
ParseIteration ==
  /\ parsePc = "scan"
  /\ scanIndex <= Len(responseText)
  /\ IndexOf(responseText, Marker, scanIndex) # 0
  /\ LET actionStart == IndexOf(responseText, Marker, scanIndex)
         close == ScanClose(responseText, actionStart + 1, 1)
         parsedAction ==
           EntryAction(Trim(SubSeq(responseText, actionStart + 1,
                                   close.j - 2)))
     IN /\ scanIndex' = close.j
        /\ parsedActions' =
             IF close.depth = 0 /\ parsedAction # Null
               THEN Push(parsedActions, parsedAction)
               ELSE parsedActions
  /\ UNCHANGED <<responseText, parsePc, executed, outsideParse>>

\* the outer while loop ends (end of text, or no further marker) and the
\* list is returned
ParseReturn ==
  /\ parsePc = "scan"
  /\ \/ scanIndex > Len(responseText)
     \/ IndexOf(responseText, Marker, scanIndex) = 0
  /\ parsePc' = "parsed"
  /\ UNCHANGED <<responseText, scanIndex, parsedActions, executed, outsideParse>>

\* variant: a rejection of the executor function is passed on
executeBrowserAction_rethrows(outcome) == outcome

\* executeBrowserAction: whatever the executor function does, the result is
\* a string; a throw becomes "Error: ..."
executeBrowserAction(outcome) ==
  IF outcome = "throw" THEN "errorString" ELSE outcome

Events(kind) == {k \in 1..Len(executed) : executed[k].event = kind}

\* the batch loop of sendMessage over the parsed list: no action, no batch
BatchBegin ==
  /\ parsePc = "parsed"
  /\ parsePc' = IF parsedActions = <<>> THEN "done" ELSE "call"
  /\ UNCHANGED <<responseText, scanIndex, parsedActions, executed, outsideParse>>

\* the next action of the list is handed to executeBrowserAction
CallExecutor ==
  /\ parsePc = "call"
  /\ LET index == Cardinality(Events("delay")) + 1
     IN executed' = Append(executed,
                           [event |-> "call", index |-> index,
                            action |-> parsedActions[index]])
  /\ parsePc' = "await"
  /\ UNCHANGED <<responseText, scanIndex, parsedActions, outsideParse>>

\* the call settles and its result is pushed to actionResults; a rejection
\* is caught by the loop and recorded as an error entry
RecordResult(outcome) ==
  /\ parsePc = "await"
  /\ LET index == Cardinality(Events("delay")) + 1
         settled == executeBrowserAction(outcome)
     IN executed' = Append(executed,
                           [event |-> "result", index |-> index,
                            outcome |-> outcome, settled |-> settled,
                            entry |-> IF settled = "throw"
                                        THEN "errorString" ELSE settled])
  /\ parsePc' = "delay"
  /\ UNCHANGED <<responseText, scanIndex, parsedActions, outsideParse>>

\* the delay of 80 to 200 ms after the action is over
DelayElapsed ==
  /\ parsePc = "delay"
  /\ LET index == Cardinality(Events("delay")) + 1
     IN /\ executed' = Append(executed, [event |-> "delay", index |-> index])
        /\ parsePc' = IF index < Len(parsedActions) THEN "call" ELSE "done"
  /\ UNCHANGED <<responseText, scanIndex, parsedActions, outsideParse>>

\* the entries the input texts are made of
EntryClick == <<Marker, " ", "click", ",", " ", "#a", "]">>
EntryType == <<Marker, " ", "type", ",", " ", "e3", ",", " ", "Hello", "]">>
EntryUnknown == <<Marker, " ", "fly", ",", " ", "x", "]">>
EntryNoParams == <<Marker, " ", "navigate", "]">>
EntryUnclosed == <<Marker, " ", "click", ",", " ", "#b">>
EntryUnbalanced == <<Marker, " ", "click", ",", " ", "#c", "[", "]">>
EntryNoCoordinate == <<Marker, " ", "clickXY", ",", " ", ",", " ", "5", "]">>
EntryEvaluate ==
  <<Marker, " ", "evaluate", ",", " ", "()", " ", "=>", " ", "{", " ",
    "return", " ", "[", "1", ",", "2", ",", "3", "]", ";", " ", "}", "]">>
PlainText == <<"ok", " ">>

WellFormed == {EntryClick, EntryType, EntryEvaluate}
Malformed == {EntryUnknown, EntryNoParams, EntryUnclosed, EntryUnbalanced,
              EntryNoCoordinate}
Entries == WellFormed \cup Malformed \cup {PlainText}

RECURSIVE Flatten(_)
Flatten(segments) ==
  IF segments = <<>> THEN <<>> ELSE segments[1] \o Flatten(Tail(segments))

EntryLists(S) == UNION {[1..n -> S] : n \in 0..MaxEntries}

\* a response text is handed to the parser
InitParse ==
  /\ PanelIdle
  /\ PanelMounted
  /\ PageOff
  /\ responseText \in {Flatten(segments) : segments \in EntryLists(Entries)}
  /\ scanIndex = 1
  /\ parsedActions = <<>>
  /\ parsePc = "scan"
  /\ executed = <<>>

NextParse ==
  \/ ParseIteration
  \/ ParseReturn
  \/ BatchBegin
  \/ CallExecutor
  \/ \E outcome \in Outcomes : RecordResult(outcome)
  \/ DelayElapsed

SpecParse == InitParse /\ [][NextParse]_vars

\* one entry "[ACTION: <type>, <params>]" for every params text over the
\* alphabet, no longer than MaxParamLen
ParamTypes == {"select", "drag", "clickXY", "scroll"}
ParamTokens == {"e3", "5", "up", ",", " "}
TypeTokens == {"e3", "submit", "slowly", ",", " "}
ParamTexts(tokens) == UNION {[1..n -> tokens] : n \in 0..MaxParamLen}

InitParams ==
  /\ PanelIdle
  /\ PanelMounted
  /\ PageOff
  /\ responseText \in
       {<<Marker, " ", type, ",">> \o params \o <<"]">> :
          type \in ParamTypes, params \in ParamTexts(ParamTokens)}
       \cup {<<Marker, " ", "type", ",">> \o params \o <<"]">> :
               params \in ParamTexts(TypeTokens)}
  /\ scanIndex = 1
  /\ parsedActions = <<>>
  /\ parsePc = "scan"
  /\ executed = <<>>

NextParams == ParseIteration \/ ParseReturn

SpecParams == InitParams /\ [][NextParams]_vars

----------------------------------------------------------------------------
(* Several sendMessage invocations in one side panel.  The closures of a   *)
(* render (sendMessage, the handlers of Chat, the pending-prompt effect)   *)
(* read the isLoading and pendingPrompt of that render.  A state update is *)
(* rendered before anything else happens, and a pending effect of the      *)
(* previous render is run before the new render.                           *)

\* the invocations that have passed the isLoading guard and not ended
PastGuard == {i \in Sends : sends[i].pc \in {"await", "exec"}}

InitPanel == PanelIdle /\ ParserOff /\ PanelMounted /\ PageOff

\* sendMessage up to its first await, called from a closure of the last
\* render; refs are written at once, state updates wait for the render
StartSend(i, fromEffect) ==
  /\ sends[i].pc = "unused"
  /\ \A k \in Sends : k < i => sends[k].pc # "unused"
  /\ ~rendered.isLoading
  /\ sends' = [sends EXCEPT ![i] = [pc |-> "await", fromEffect |-> fromEffect]]
  /\ isLoadingState' = TRUE
  /\ abortControllerRef' = i
  /\ renderDue' = TRUE

\* the storage read of the mount effect delivers a pendingAction
PendingActionRead(prompt) ==
  /\ ~storageRead
  /\ ~renderDue
  /\ storageRead' = TRUE
  /\ pendingPrompt' = prompt
  /\ renderDue' = TRUE
  /\ UNCHANGED <<isLoadingState, rendered, effectPending,
                 pendingPromptDispatchRef, abortControllerRef,
                 abortedControllers, sends, outsidePanel>>

\* React renders the current state; the pending-prompt effect is scheduled
\* when one of its dependencies has changed
Render ==
  /\ renderDue
  /\ ~effectPending
  /\ renderDue' = FALSE
  /\ rendered' = [isLoading |-> isLoadingState, pendingPrompt |-> pendingPrompt]
  /\ effectPending' = (rendered' # rendered)
  /\ UNCHANGED <<isLoadingState, pendingPrompt, pendingPromptDispatchRef,
                 abortControllerRef, abortedControllers, sends, storageRead,
                 outsidePanel>>

\* the pending-prompt effect, with the values of the render it belongs to
PendingPromptEffect ==
  /\ effectPending
  /\ effectPending' = FALSE
  /\ IF \/ rendered.isLoading
        \/ rendered.pendingPrompt = "none"
        \/ pendingPromptDispatchRef = rendered.pendingPrompt
       THEN UNCHANGED <<isLoadingState, pendingPrompt, renderDue,
                        pendingPromptDispatchRef, abortControllerRef, sends>>
       ELSE /\ pendingPromptDispatchRef' = rendered.pendingPrompt
            /\ pendingPrompt' = "none"
            /\ \E i \in Sends : StartSend(i, rendered.pendingPrompt)
  /\ UNCHANGED <<rendered, abortedControllers, storageRead, outsidePanel>>

\* a card, a quick action or the form of Chat calls onSendMessage
UserSend ==
  /\ ~renderDue
  /\ \E i \in Sends : StartSend(i, "none")
  /\ UNCHANGED <<pendingPrompt, rendered, effectPending,
                 pendingPromptDispatchRef, abortedControllers, storageRead,
                 outsidePanel>>

\* the stop button, shown while the rendered isLoading is true
StopButton ==
  /\ ~renderDue
  /\ rendered.isLoading
  /\ abortedControllers' =
       IF abortControllerRef # 0
         THEN abortedControllers \cup {abortControllerRef}
         ELSE abortedControllers
  /\ UNCHANGED <<isLoadingState, pendingPrompt, rendered, renderDue,
                 effectPending, pendingPromptDispatchRef, abortControllerRef,
                 sends, storageRead, outsidePanel>>

\* an invocation passes the while guard and calls executeBrowserAction
ExecutorCalled(i) ==
  /\ ~renderDue
  /\ sends[i].pc = "await"
  /\ abortControllerRef \notin abortedControllers
  /\ sends' = [sends EXCEPT ![i].pc = "exec"]
  /\ UNCHANGED <<isLoadingState, pendingPrompt, rendered, renderDue,
                 effectPending, pendingPromptDispatchRef, abortControllerRef,
                 abortedControllers, storageRead, outsidePanel>>

\* the executor call of an invocation settles
ExecutorSettled(i) ==
  /\ ~renderDue
  /\ sends[i].pc = "exec"
  /\ sends' = [sends EXCEPT ![i].pc = "await"]
  /\ UNCHANGED <<isLoadingState, pendingPrompt, rendered, renderDue,
                 effectPending, pendingPromptDispatchRef, abortControllerRef,
                 abortedControllers, storageRead, outsidePanel>>

\* the finally block of an invocation, and the finally of the effect's call
SendFinally(i) ==
  /\ ~renderDue
  /\ sends[i].pc = "await"
  /\ sends' = [sends EXCEPT ![i].pc = "done"]
  /\ isLoadingState' = FALSE
  /\ abortControllerRef' = 0
  /\ renderDue' = TRUE
  /\ pendingPromptDispatchRef' =
       IF sends[i].fromEffect # "none"
            /\ pendingPromptDispatchRef = sends[i].fromEffect
         THEN "none"
         ELSE pendingPromptDispatchRef
  /\ UNCHANGED <<pendingPrompt, rendered, effectPending, abortedControllers,
                 storageRead, outsidePanel>>

NextPanel ==
  \/ \E prompt \in Prompts : PendingActionRead(prompt)
  \/ Render
  \/ PendingPromptEffect
  \/ UserSend
  \/ StopButton
  \/ \E i \in Sends : ExecutorCalled(i)
  \/ \E i \in Sends : ExecutorSettled(i)
  \/ \E i \in Sends : SendFinally(i)

SpecPanel == InitPanel /\ [][NextPanel]_vars

----------------------------------------------------------------------------
(* Element references.  An element is a position of the page, 1 the        *)
(* topmost; document order and the order by rect.top are taken to be the   *)
(* same.  An element that leaves the page loses its attributes; a later    *)
(* element at the same position is a new element.                          *)

maxRefs == 120

Refs == 0..(MaxElems - 1)
NoLookup == [ref |-> NoRef, element |-> 0]

\* the elements of S in ascending order: sort((a, b) => a.rect.top - ...)
RECURSIVE Ascending(_)
Ascending(S) ==
  IF S = {} THEN <<>> ELSE <<SetMin(S)>> \o Ascending(S \ {SetMin(S)})

\* the candidates of a snapshot in the order they are given refs: by top,
\* then (stable) those near the viewport first
Candidates(d) == {e \in Elems : d[e].state = "visible"}
SnapshotOrder(d, view) ==
  Ascending(Candidates(d) \cap view) \o Ascending(Candidates(d) \ view)

\* while (usedRefIds.has(`e${refCounter}`)) refCounter++
RECURSIVE NextFree(_, _)
NextFree(refCounter, usedRefIds) ==
  IF refCounter \in usedRefIds
    THEN NextFree(refCounter + 1, usedRefIds)
    ELSE refCounter

\* const usedRefIds = new Set<string>()
UsedAtStart(d) == {}

\* the forEach over the sorted candidates: a stamped element keeps its ref,
\* an unstamped one gets the next ref not seen so far in this snapshot
RECURSIVE Stamp(_, _, _, _)
Stamp(order, refCounter, usedRefIds, d) ==
  IF order = <<>> THEN d
  ELSE LET el == Head(order)
           existingRef == d[el].ref
           refId == NextFree(refCounter, usedRefIds)
       IN IF existingRef = NoRef /\ refCounter >= maxRefs
            THEN Stamp(Tail(order), refCounter, usedRefIds, d)
          ELSE IF existingRef # NoRef
            THEN Stamp(Tail(order), refCounter,
                       usedRefIds \cup {existingRef}, d)
          ELSE Stamp(Tail(order), refId + 1, usedRefIds \cup {refId},
                     [d EXCEPT ![el].ref = refId])

\* document.querySelector(`[data-copilot-ref="${refId}"]`): the first
\* element in document order that carries the ref, 0 for null
QueryRef(d, ref) ==
  LET hits == {e \in Elems : d[e].state # "absent" /\ d[e].ref = ref}
  IN IF hits = {} THEN 0 ELSE SetMin(hits)

\* an element is added to the page
InsertElement(e, state) ==
  /\ dom[e].state = "absent"
  /\ dom' = [dom EXCEPT ![e] = [state |-> state, ref |-> NoRef]]
  /\ resolved' = NoLookup
  /\ UNCHANGED <<inViewport, presented, outsideRefs>>

\* an element is removed from the page
RemoveElement(e) ==
  /\ dom[e].state # "absent"
  /\ dom' = [dom EXCEPT ![e] = Absent]
  /\ resolved' = NoLookup
  /\ UNCHANGED <<inViewport, presented, outsideRefs>>

\* an element of the page becomes hidden or visible
SetVisibility(e) ==
  /\ dom[e].state # "absent"
  /\ dom' = [dom EXCEPT ![e].state =
               IF dom[e].state = "visible" THEN "hidden" ELSE "visible"]
  /\ resolved' = NoLookup
  /\ UNCHANGED <<inViewport, presented, outsideRefs>>

\* the page is scrolled
Scroll(view) ==
  /\ view # inViewport
  /\ inViewport' = view
  /\ resolved' = NoLookup
  /\ UNCHANGED <<dom, presented, outsideRefs>>

\* extractPageContent: the visible candidates are stamped and listed
Snapshot ==
  /\ dom' = Stamp(SnapshotOrder(dom, inViewport), 0, UsedAtStart(dom), dom)
  /\ presented' = {<<dom'[e].ref, e>> :
                     e \in {x \in Candidates(dom) : dom'[x].ref # NoRef}}
  /\ resolved' = NoLookup
  /\ UNCHANGED <<inViewport, outsideRefs>>

\* an executor looks up the ref of its target
LookUpRef(ref) ==
  /\ resolved' = [ref |-> ref, element |-> QueryRef(dom, ref)]
  /\ UNCHANGED <<dom, inViewport, presented, outsideRefs>>

InitRefs ==
  /\ PanelIdle
  /\ ParserOff
  /\ PanelMounted
  /\ PageOff

NextRefs ==
  \/ \E e \in Elems, state \in {"visible", "hidden"} : InsertElement(e, state)
  \/ \E e \in Elems : RemoveElement(e)
  \/ \E e \in Elems : SetVisibility(e)
  \/ \E view \in SUBSET Elems : Scroll(view)
  \/ Snapshot
  \/ \E ref \in Refs : LookUpRef(ref)

SpecRefs == InitRefs /\ [][NextRefs]_vars

----------------------------------------------------------------------------
(* Resolution of an action's target.  A target string is a sequence of     *)
(* tokens: "e" and "E", the digit "2", the prefix "ref:" and "#", which    *)
(* stands for any other run of characters (as "#pag" in "#page2").         *)

MaxTargetLen == 3
PollTimeout == 3000
PollInterval == 100

TargetTokens == {"e", "E", "2", "ref:", "#"}
Digits == {"2"}
Targets ==
  UNION {[1..n -> TargetTokens] : n \in 1..MaxTargetLen}

\* \d+ from position i: the longest run of digits that starts there
RECURSIVE DigitRun(_, _)
DigitRun(sel, i) ==
  IF i <= Len(sel) /\ sel[i] \in Digits
    THEN <<sel[i]>> \o DigitRun(sel, i + 1)
    ELSE <<>>

\* sel.match(/[eE](\d+)/): the digits of the leftmost match anywhere in the
\* string, <<>> for null
RefAnywhere(sel) ==
  LET starts == {i \in 1..Len(sel) :
                   sel[i] \in {"e", "E"} /\ DigitRun(sel, i + 1) # <<>>}
  IN IF starts = {} THEN <<>> ELSE DigitRun(sel, SetMin(starts) + 1)

\* sel.match(/^(?:ref:)?([eE]\d+)$/): the digits when the whole string is a
\* ref, <<>> for null
RefWhole(sel) ==
  LET body == IF sel # <<>> /\ Head(sel) = "ref:" THEN Tail(sel) ELSE sel
  IN IF /\ Len(body) >= 2
        /\ body[1] \in {"e", "E"}
        /\ Len(DigitRun(body, 2)) = Len(body) - 1
       THEN DigitRun(body, 2)
       ELSE <<>>

TargetKinds ==
  {"click", "type", "check", "uncheck", "fillForm", "upload", "evaluate",
   "radio", "select", "slider", "drag", "hover", "focus"}

\* the kinds whose executor takes an e<digits> from anywhere in the target
ExtractsAnywhere ==
  {"click", "type", "check", "uncheck", "fillForm", "upload", "evaluate"}

\* the kinds whose executor waits for the stamped element
Polling == {"click", "type"}

\* the ref match of the executor of a kind
RefMatch(kind, sel) ==
  IF kind \in ExtractsAnywhere THEN RefAnywhere(sel) ELSE RefWhole(sel)

\* if (refMatch) ... querySelector by ref ... else querySelector(sel)
LookupOf(kind, sel) ==
  IF RefMatch(kind, sel) # <<>>
    THEN [mode |-> "ref", ref |-> RefMatch(kind, sel)]
    ELSE [mode |-> "selector", ref |-> <<>>]

\* the executor of an action is injected into the page with its target
StartResolve(kind, sel, present) ==
  /\ resolution = "idle"
  /\ actionKind' = kind
  /\ target' = sel
  /\ lookup' = LookupOf(kind, sel)
  /\ elapsed' = 0
  /\ stamped' = present
  /\ resolution' = "querying"
  /\ UNCHANGED outsideTarget

\* one document.querySelector for the ref; a polling executor that finds
\* nothing sleeps, the others give up
QueryByRef ==
  /\ resolution = "querying"
  /\ lookup.mode = "ref"
  /\ resolution' = IF stamped THEN "found"
                ELSE IF actionKind \in Polling THEN "sleeping"
                ELSE "not found"
  /\ UNCHANGED <<actionKind, target, lookup, elapsed, stamped, outsideTarget>>

\* await new Promise((r) => setTimeout(r, 100)), then the while condition
\* Date.now() - start < 3000
Sleep ==
  /\ resolution = "sleeping"
  /\ elapsed' = elapsed + PollInterval
  /\ resolution' = IF elapsed' < PollTimeout THEN "querying" ELSE "not found"
  /\ UNCHANGED <<actionKind, target, lookup, stamped, outsideTarget>>

\* document.querySelector(sel) of a target that is not taken as a ref
QueryBySelector(matches) ==
  /\ resolution = "querying"
  /\ lookup.mode = "selector"
  /\ resolution' = IF matches THEN "found" ELSE "not found"
  /\ UNCHANGED <<actionKind, target, lookup, elapsed, stamped, outsideTarget>>

\* the page adds the stamped element while the executor is at work
ElementAppears ==
  /\ resolution \in {"querying", "sleeping"}
  /\ ~stamped
  /\ stamped' = TRUE
  /\ UNCHANGED <<actionKind, target, lookup, elapsed, resolution, outsideTarget>>

\* the executor returns its result
ResolveReturn ==
  /\ resolution \in {"found", "not found"}
  /\ actionKind' = "none"
  /\ target' = <<>>
  /\ lookup' = [mode |-> "none", ref |-> <<>>]
  /\ elapsed' = 0
  /\ stamped' = FALSE
  /\ resolution' = "idle"
  /\ UNCHANGED outsideTarget

InitTarget ==
  /\ PanelIdle
  /\ ParserOff
  /\ PanelMounted
  /\ PageOff

NextTarget ==
  \/ \E kind \in TargetKinds, sel \in Targets, present \in BOOLEAN :
       StartResolve(kind, sel, present)
  \/ QueryByRef
  \/ Sleep
  \/ \E matches \in BOOLEAN : QueryBySelector(matches)
  \/ ElementAppears
  \/ ResolveReturn

SpecTarget == InitTarget /\ [][NextTarget]_vars

----------------------------------------------------------------------------
(* The results of the executors and their classification by the loop.  A   *)
(* result text is a sequence of tokens; the markers the loop looks for are *)
(* tokens of their own, so that "includes" is membership.                  *)

MaxResults == 2

ErrorMarkers == {"not found", "Error", "error"}

\* result.includes(marker)
Includes(text, marker) == \E k \in 1..Len(text) : text[k] = marker

\* the selectors and texts the actions are given
ResultArgs == {<<"#a">>, <<".", "error">>}

ResultKinds ==
  {"click", "waitForSelector", "waitForText", "waitForTextGone", "clickXY",
   "select", "slider", "evaluate"}

\* the message of a result with success: true
SuccessText(kind, arg) ==
  CASE kind = "click" -> <<"Clicked", ": ">> \o arg
    [] kind = "waitForSelector" -> <<"Found ">> \o arg
    [] kind = "waitForText" -> <<"Found text: ">> \o arg
    [] kind = "waitForTextGone" -> <<"Text gone: ">> \o arg
    [] kind = "clickXY" -> <<"Clicked at ", "(5, 5)">>
    [] kind = "select" -> <<"Selected: ">> \o arg
    [] kind = "slider" -> <<"Set slider to ", "5">>
    [] kind = "evaluate" -> <<"Evaluated: ">> \o arg

\* the error texts of the results with success: false
FailureTexts(kind, arg) ==
  CASE kind = "click" -> {<<"Element ", "not found", ": ">> \o arg}
    [] kind = "waitForSelector" -> {<<"Timeout waiting for ">> \o arg}
    [] kind = "waitForText" -> {<<"Timeout waiting for text: ">> \o arg}
    [] kind = "waitForTextGone" ->
         {<<"Timeout waiting for text to disappear: ">> \o arg}
    [] kind = "clickXY" -> {<<"No element at ", "(5, 5)">>}
    [] kind = "select" ->
         {<<"Select element ", "not found", ": ">> \o arg,
          <<"Option ", "not found", ": ">> \o arg}
    [] kind = "slider" ->
         {<<"Slider ", "not found", ": ">> \o arg,
          <<"Element is not a slider: ">> \o arg}
    [] kind = "evaluate" -> {<<"Eval ", "error", ": ">> \o arg}

\* result?.error || "... failed": the injected script gave no result
FallbackText(kind) ==
  CASE kind \in {"click", "clickXY"} -> <<"Click failed">>
    [] kind \in {"waitForSelector", "waitForText", "waitForTextGone"} ->
         <<"Wait failed">>
    [] kind = "select" -> <<"Select failed">>
    [] kind = "slider" -> <<"Slider failed">>
    [] kind = "evaluate" -> <<"Evaluate failed">>

\* the catch of executeBrowserAction
ThrownText == <<"Error", ": ", "message">>

\* what executeBrowserAction can return for an action of a kind
Results(kind, arg) ==
  {[kind |-> kind, reports |-> "success", text |-> SuccessText(kind, arg)]}
  \cup {[kind |-> kind, reports |-> "failure", text |-> t] :
          t \in FailureTexts(kind, arg)}
  \cup {[kind |-> kind, reports |-> "failure", text |-> FallbackText(kind)],
        [kind |-> kind, reports |-> "failure", text |-> ThrownText]}

\* result.includes("not found") || result.includes("Error") ||
\* result.includes("error")
IsErrorResult(r) == \E marker \in ErrorMarkers : Includes(r.text, marker)

\* const result = await executeBrowserAction(action)
ExecutorReturns(r) ==
  /\ classifyPc = "idle"
  /\ resultsPushed < MaxResults
  /\ result' = r
  /\ classifyPc' = "returned"
  /\ UNCHANGED <<counted, cycleErrors, resultsPushed, outsideResult>>

\* actionResults.push(...) and the test that increments errorCount
Classify ==
  /\ classifyPc = "returned"
  /\ resultsPushed' = resultsPushed + 1
  /\ counted' = IsErrorResult(result)
  /\ cycleErrors' = IF IsErrorResult(result)
                      THEN cycleErrors + 1 ELSE cycleErrors
  /\ classifyPc' = "classified"
  /\ UNCHANGED <<result, outsideResult>>

\* the delay after the action; the for loop goes on
NextResult ==
  /\ classifyPc = "classified"
  /\ classifyPc' = "idle"
  /\ UNCHANGED <<result, counted, cycleErrors, resultsPushed, outsideResult>>

\* the for loop is over; the next cycle starts with errorCount = 0
ResultsOver ==
  /\ classifyPc = "idle"
  /\ resultsPushed > 0
  /\ result' = NoResult
  /\ counted' = FALSE
  /\ cycleErrors' = 0
  /\ resultsPushed' = 0
  /\ UNCHANGED <<classifyPc, outsideResult>>

InitResult ==
  /\ PanelIdle
  /\ ParserOff
  /\ PanelMounted
  /\ PageOff

NextResults ==
  \/ \E kind \in ResultKinds, arg \in ResultArgs :
       \E r \in Results(kind, arg) : ExecutorReturns(r)
  \/ Classify
  \/ NextResult
  \/ ResultsOver

SpecResult == InitResult /\ [][NextResults]_vars

----------------------------------------------------------------------------
(* The screenshot permission warning.  Error messages are sequences of     *)
(* tokens, "activeTab" and "SCREENSHOT_PERMISSION" being tokens.           *)

MaxChat == 3

\* the messages with which chrome.tabs.captureVisibleTab rejects
CaptureRejections ==
  {<<"Either the '<all_urls>' or '", "activeTab", "' permission is required.">>,
   <<"Cannot access contents of the page.">>,
   <<"Tabs cannot be edited right now.">>}

\* captureScreenshot: the message of the error it throws for a rejection
captureScreenshot(message) ==
  IF Includes(message, "activeTab")
    THEN <<"SCREENSHOT_PERMISSION", ": ", "activeTab",
           " permission not granted.">>
    ELSE message

\* message.includes("SCREENSHOT_PERMISSION") || message.includes("activeTab")
IsPermissionError(message) ==
  Includes(message, "SCREENSHOT_PERMISSION") \/ Includes(message, "activeTab")

\* variant: the ref is not looked at
AlreadyWarned_never(ref) == FALSE

\* if (screenshotPermissionWarnedRef.current) return
AlreadyWarned(ref) == ref

Warnings(messages) ==
  Cardinality({k \in 1..Len(messages) : messages[k] = "warning"})

\* sendMessage appends a user or an assistant message
AppendMessage(kind) ==
  /\ Len(chat) < MaxChat
  /\ chat' = Append(chat, kind)
  /\ UNCHANGED <<screenshotPermissionWarnedRef, captureError, warnedNow,
                 outsideWarn>>

\* a screenshot capture of sendMessage fails and the catch calls
\* maybeWarnScreenshotPermission
CaptureFails(rejection) ==
  /\ Len(chat) < MaxChat
  /\ LET message == captureScreenshot(rejection)
         warns == /\ ~AlreadyWarned(screenshotPermissionWarnedRef)
                  /\ IsPermissionError(message)
     IN /\ captureError' = message
        /\ warnedNow' = warns
        /\ screenshotPermissionWarnedRef' =
             (screenshotPermissionWarnedRef \/ warns)
        /\ chat' = IF warns THEN Append(chat, "warning") ELSE chat
  /\ UNCHANGED outsideWarn

\* onClearMessages: setMessages([])
ClearMessages ==
  /\ chat # <<>>
  /\ chat' = <<>>
  /\ UNCHANGED <<screenshotPermissionWarnedRef, captureError, warnedNow,
                 outsideWarn>>

InitWarn ==
  /\ PanelIdle
  /\ ParserOff
  /\ PanelMounted
  /\ PageOff

NextWarn ==
  \/ \E kind \in {"user", "assistant"} : AppendMessage(kind)
  \/ \E rejection \in CaptureRejections : CaptureFails(rejection)
  \/ ClearMessages

SpecWarn == InitWarn /\ [][NextWarn]_vars

----------------------------------------------------------------------------
(* The conversation history of one send cycle.  A turn is a role and what  *)
(* its content is: a message of the chat before the cycle, the prompt, the *)
(* response or the action results of a loop.                               *)

MaxCycles == 3

Turn(role, what, loop) == [role |-> role, what |-> what, loop |-> loop]

\* the chat messages of the render in which the send cycle starts
PriorChats ==
  {<<>>,
   <<Turn("user", "prior", 0)>>,
   <<Turn("user", "prior", 0), Turn("assistant", "prior", 0)>>,
   <<Turn("assistant", "prior", 0)>>}

\* variant: the history is cut to its latest turns
Extend_window(turns, turn) ==
  IF turns = <<>> THEN <<turn>> ELSE Append(Tail(turns), turn)

\* conversationHistory = [...conversationHistory, turn]
Extend(turns, turn) == Append(turns, turn)

\* the first POST /chat: messages: [...messages, newUserMessage]
FirstRequest(messages) ==
  /\ historyPc = "idle"
  /\ requestMessages' = Extend(messages, Turn("user", "prompt", 0))
  /\ previousMessages' = <<>>
  /\ requestCount' = 1
  /\ historyLoop' = 0
  /\ conversationHistory' = <<>>
  /\ historyPc' = "first response"
  /\ UNCHANGED outsideHistory

\* the first response has been read:
\* conversationHistory = [...messages, newUserMessage, assistant turn]
FirstResponse ==
  /\ historyPc = "first response"
  /\ conversationHistory' =
       Extend(requestMessages, Turn("assistant", "response", 0))
  /\ historyPc' = "loop"
  /\ UNCHANGED <<requestMessages, previousMessages, requestCount,
                 historyLoop, outsideHistory>>

\* the first request fails, or the loop is not entered or is left
HistoryOver ==
  /\ historyPc \in {"first response", "loop"}
  /\ conversationHistory' = <<>>
  /\ requestMessages' = <<>>
  /\ previousMessages' = <<>>
  /\ requestCount' = 0
  /\ historyLoop' = 0
  /\ historyPc' = "idle"
  /\ UNCHANGED outsideHistory

\* a cycle has executed its actions: the result turn is added
AddResults ==
  /\ historyPc = "loop"
  /\ historyLoop < MaxCycles
  /\ historyLoop' = historyLoop + 1
  /\ conversationHistory' =
       Extend(conversationHistory, Turn("user", "results", historyLoop'))
  /\ historyPc' = "continue"
  /\ UNCHANGED <<requestMessages, previousMessages, requestCount,
                 outsideHistory>>

\* the continuation request: messages: conversationHistory
ContinueRequest ==
  /\ historyPc = "continue"
  /\ previousMessages' = requestMessages
  /\ requestMessages' = conversationHistory
  /\ requestCount' = requestCount + 1
  /\ historyPc' = "continue response"
  /\ UNCHANGED <<conversationHistory, historyLoop, outsideHistory>>

\* the continuation response has been read and is added as a turn
ContinueResponse ==
  /\ historyPc = "continue response"
  /\ conversationHistory' =
       Extend(conversationHistory,
              Turn("assistant", "response", historyLoop))
  /\ historyPc' = "loop"
  /\ UNCHANGED <<requestMessages, previousMessages, requestCount,
                 historyLoop, outsideHistory>>

\* the continuation request or its stream fails with an error that is not
\* an abort: the catch logs it and the loop goes on, no turn is added
ContinueError ==
  /\ historyPc = "continue response"
  /\ historyPc' = "loop"
  /\ UNCHANGED <<conversationHistory, requestMessages, previousMessages,
                 requestCount, historyLoop, outsideHistory>>

InitHistory ==
  /\ PanelIdle
  /\ ParserOff
  /\ PanelMounted
  /\ PageOff

NextHistory ==
  \/ \E messages \in PriorChats : FirstRequest(messages)
  \/ FirstResponse
  \/ HistoryOver
  \/ AddResults
  \/ ContinueRequest
  \/ ContinueResponse
  \/ ContinueError

SpecHistory == InitHistory /\ [][NextHistory]_vars

----------------------------------------------------------------------------
(* The executors acting on an element.  The element is a checkbox, a       *)
(* radio button, a text input or a button.  cancelsClick says that the     *)
(* default action of a click on it is prevented (a listener of the page    *)
(* calls preventDefault, or the browser ignores a disabled control);       *)
(* otherwise a dispatched click event activates the element as a click of  *)
(* the user does: a checkbox is toggled, a radio button is checked, and    *)
(* input and change are fired.  The element is at the top of the page,     *)
(* where scrollIntoView brings the window.                                 *)

MaxTextLen == 2
MaxScroll == 2
ActionableTimeout == 3000
DefaultScrollAmount == 500

Chars == {"a", "b"}
Texts == UNION {[1..n -> Chars] : n \in 0..MaxTextLen}
ScrollPositions == {k * DefaultScrollAmount : k \in 0..MaxScroll}

Elements ==
  {[kind |-> k, checked |-> c, value |-> v, disabled |-> d, hidden |-> h,
    cancelsClick |-> p, top |-> 0] :
     k \in {"checkbox", "radio"}, c \in BOOLEAN, v \in {<<>>},
     d \in BOOLEAN, h \in BOOLEAN, p \in BOOLEAN}
  \cup
  {[kind |-> "text", checked |-> FALSE, value |-> v, disabled |-> d,
    hidden |-> h, cancelsClick |-> p, top |-> 0] :
     v \in Texts, d \in BOOLEAN, h \in BOOLEAN, p \in BOOLEAN}
  \cup
  {[kind |-> "button", checked |-> FALSE, value |-> <<>>, disabled |-> d,
    hidden |-> h, cancelsClick |-> p, top |-> 0] :
     d \in BOOLEAN, h \in BOOLEAN, p \in BOOLEAN}

DomActions ==
  {[kind |-> "click", double |-> dbl, button |-> b, path |-> p] :
     dbl \in BOOLEAN, b \in {"left", "middle", "right"},
     p \in {"ref", "selector"}}
  \cup {[kind |-> "type", text |-> t] : t \in Texts}
  \cup {[kind |-> "check"], [kind |-> "uncheck"]}
  \cup {[kind |-> "scroll", direction |-> d] : d \in {"up", "down"}}

\* isVisible && isEnabled of waitForActionable
Actionable(el) == ~el.hidden /\ ~el.disabled

\* el.tagName === "INPUT"
IsInput(el) == el.kind \in {"checkbox", "radio", "text"}

\* input.type === "radio" || input.type === "checkbox"
IsCheckable(el) == el.kind \in {"checkbox", "radio"}

\* the state of an execution: the element and the log of what was
\* dispatched on it and of the changes of its checked state
Log(st, entries) == [st EXCEPT !.log = st.log \o entries]

\* the activation of the element by a click event that is not cancelled
Activate(st) ==
  IF st.el.cancelsClick THEN st
  ELSE IF st.el.kind = "checkbox"
    THEN [el |-> [st.el EXCEPT !.checked = ~st.el.checked],
          log |-> st.log \o <<"checked", "input", "change">>]
  ELSE IF st.el.kind = "radio" /\ ~st.el.checked
    THEN [el |-> [st.el EXCEPT !.checked = TRUE],
          log |-> st.log \o <<"checked", "input", "change">>]
  ELSE st

\* el.dispatchEvent(new MouseEvent("mousedown")), ("mouseup"), ("click")
ClickSequence(st) == Activate(Log(st, <<"mousedown", "mouseup", "click">>))

\* input.checked = !input.checked
FlipChecked(st) ==
  [el |-> [st.el EXCEPT !.checked = ~st.el.checked],
   log |-> st.log \o <<"checked">>]

\* performClick after scrollIntoView and focus
performClick(el, isDouble, button) ==
  LET start == [el |-> el, log |-> <<>>]
      once == ClickSequence(start)
      clicked == IF isDouble
                   THEN Log(ClickSequence(once), <<"dblclick">>)
                   ELSE once
      flipped == IF IsCheckable(el) THEN FlipChecked(clicked) ELSE clicked
  IN IF button = "right" THEN Log(start, <<"contextmenu">>)
     ELSE IF IsInput(el) THEN Log(flipped, <<"change", "input">>)
     ELSE clicked

\* variant: the value is not cleared before typing
ClearValue_keeps(st) == Log(st, <<"input">>)

\* element.value = ""; dispatch input
ClearValue(st) ==
  [el |-> [st.el EXCEPT !.value = <<>>], log |-> st.log \o <<"input">>]

\* for (const char of txt) { element.value += char; keydown, input, keyup }
RECURSIVE TypeChars(_, _)
TypeChars(st, txt) ==
  IF txt = <<>> THEN st
  ELSE TypeChars([el |-> [st.el EXCEPT !.value = Append(@, Head(txt))],
                  log |-> st.log \o <<"keydown", "input", "keyup">>],
                 Tail(txt))

\* typeText once the element is found
typeText(el, txt) ==
  Log(TypeChars(ClearValue([el |-> el, log |-> <<>>]), txt), <<"change">>)

\* checkElement once the element is found
checkElement(el, shouldCheck) ==
  [el |-> [el EXCEPT !.checked = shouldCheck],
   log |-> (IF el.checked # shouldCheck THEN <<"checked">> ELSE <<>>)
           \o <<"change", "input">>]

\* window.scrollBy(0, dir === "down" ? amt : -amt)
scrollBy(y, direction, amount) ==
  LET wanted == IF direction = "down" THEN y + amount ELSE y - amount
  IN IF wanted < 0 THEN 0
     ELSE IF wanted > MaxScroll * DefaultScrollAmount
       THEN MaxScroll * DefaultScrollAmount
     ELSE wanted

\* what the executor of an action does to its target
Executed(action, el) ==
  CASE action.kind = "click" ->
         performClick(el, action.double, action.button)
    [] action.kind = "type" -> typeText(el, action.text)
    [] action.kind = "check" -> checkElement(el, TRUE)
    [] action.kind = "uncheck" -> checkElement(el, FALSE)
    [] action.kind = "scroll" -> [el |-> el, log |-> <<>>]

\* element.scrollIntoView of click and type, window.scrollBy of scroll
ScrolledTo(action, el, y) ==
  CASE action.kind \in {"click", "type"} -> el.top
    [] action.kind = "scroll" ->
         scrollBy(y, action.direction, DefaultScrollAmount)
    [] OTHER -> y

\* only a click addressed by ref waits for its target to be actionable
FirstStep(action) ==
  IF action.kind = "click" /\ action.path = "ref" THEN "waiting" ELSE "ready"

\* a page with the target element is there
PageLoads(el, y) ==
  /\ domPc = "unloaded"
  /\ element' = el
  /\ scrollY' = y
  /\ domPc' = "idle"
  /\ UNCHANGED <<domAction, trace, waited, isActionable, actionableAtClick,
                 domResult, runs, afterFirst, disturbed, outsideDom>>

\* executeBrowserAction hands an action to its executor, the target is found
BeginAction(action) ==
  /\ domPc = "idle"
  /\ domAction' = action
  /\ domPc' = FirstStep(action)
  /\ waited' = 0
  /\ UNCHANGED <<element, scrollY, trace, isActionable, actionableAtClick,
                 domResult, runs, afterFirst, disturbed, outsideDom>>

\* waitForActionable: one turn of its loop
WaitForActionable ==
  /\ domPc = "waiting"
  /\ IF Actionable(element)
       THEN /\ isActionable' = TRUE
            /\ domPc' = "ready"
            /\ waited' = waited
       ELSE /\ waited' = waited + PollInterval
            /\ isActionable' = FALSE
            /\ domPc' = IF waited' < ActionableTimeout
                          THEN "waiting" ELSE "ready"
  /\ UNCHANGED <<element, scrollY, domAction, trace, actionableAtClick,
                 domResult, runs, afterFirst, disturbed, outsideDom>>

\* the page shows and enables the element while the executor waits
BecomesActionable ==
  /\ domPc = "waiting"
  /\ ~Actionable(element)
  /\ element' = [element EXCEPT !.hidden = FALSE, !.disabled = FALSE]
  /\ disturbed' = TRUE
  /\ UNCHANGED <<scrollY, domAction, trace, domPc, waited, isActionable,
                 actionableAtClick, domResult, runs, afterFirst, outsideDom>>

\* the executor acts on the element and returns its result
Perform ==
  /\ domPc = "ready"
  /\ LET done == Executed(domAction, element)
     IN /\ element' = done.el
        /\ trace' = done.log
  /\ scrollY' = ScrolledTo(domAction, element, scrollY)
  /\ actionableAtClick' = Actionable(element)
  /\ domResult' = "success"
  /\ runs' = runs + 1
  /\ afterFirst' = IF runs = 0 THEN <<element', scrollY'>> ELSE afterFirst
  /\ domPc' = "returned"
  /\ UNCHANGED <<domAction, waited, isActionable, disturbed, outsideDom>>

\* the same action is executed once more
Retry ==
  /\ domPc = "returned"
  /\ runs = 1
  /\ domPc' = FirstStep(domAction)
  /\ waited' = 0
  /\ trace' = <<>>
  /\ domResult' = "none"
  /\ UNCHANGED <<element, scrollY, domAction, isActionable,
                 actionableAtClick, runs, afterFirst, disturbed, outsideDom>>

\* the page is left
PageUnloads ==
  /\ domPc = "returned"
  /\ element' = NoElement
  /\ scrollY' = 0
  /\ domAction' = NoAction
  /\ trace' = <<>>
  /\ domPc' = "unloaded"
  /\ waited' = 0
  /\ isActionable' = FALSE
  /\ actionableAtClick' = FALSE
  /\ domResult' = "none"
  /\ runs' = 0
  /\ afterFirst' = <<>>
  /\ disturbed' = FALSE
  /\ UNCHANGED outsideDom

InitDom ==
  /\ PanelIdle
  /\ ParserOff
  /\ PanelMounted
  /\ PageOff

NextDom ==
  \/ \E el \in Elements, y \in ScrollPositions : PageLoads(el, y)
  \/ \E action \in DomActions : BeginAction(action)
  \/ WaitForActionable
  \/ BecomesActionable
  \/ Perform
  \/ Retry
  \/ PageUnloads

SpecDom == InitDom /\ [][NextDom]_vars

----------------------------------------------------------------------------
(* The loop budget: whatever is stored or entered for maxAgentLoops, the   *)
(* send cycle clamps it and counts its cycles against the clamped value.   *)

MaxStoredHalves == 5

\* the values of maxAgentLoops: not finite (NaN, Infinity, not a number),
\* small ones around 0 and 1, and those around the upper limit
StoredValues ==
  {NotFinite}
  \cup {[finite |-> TRUE, halves |-> h] : h \in (-3)..MaxStoredHalves}
  \cup {[finite |-> TRUE, halves |-> 2 * MAX_AGENT_LOOPS + h] :
          h \in (-1)..MaxStoredHalves}

\* const safeMaxAgentLoops = clampAgentLoops(maxAgentLoops); let loopCount = 0
BudgetSet(value) ==
  /\ budgetPc = "idle"
  /\ storedLoops' = value
  /\ loopBudget' = clampAgentLoops(value)
  /\ budgetLoop' = 0
  /\ budgetPc' = "loop"
  /\ UNCHANGED outsideBudget

\* while (loopCount < safeMaxAgentLoops ...) { ... loopCount++ ... }
BudgetIteration ==
  /\ budgetPc = "loop"
  /\ budgetLoop < loopBudget
  /\ budgetLoop' = budgetLoop + 1
  /\ UNCHANGED <<storedLoops, loopBudget, budgetPc, outsideBudget>>

\* the loop is left: by its guard, by a break or by a throw
BudgetLoopLeft ==
  /\ budgetPc = "loop"
  /\ storedLoops' = NotFinite
  /\ loopBudget' = 0
  /\ budgetLoop' = 0
  /\ budgetPc' = "idle"
  /\ UNCHANGED outsideBudget

NextBudget ==
  \/ \E value \in StoredValues : BudgetSet(value)
  \/ BudgetIteration
  \/ BudgetLoopLeft

SpecBudget == Init /\ [][NextBudget]_vars

----------------------------------------------------------------------------
(* The file actions of a send cycle.  A response is the sequence of the    *)
(* file markers in its text; a path or a content is a sequence of tokens,  *)
(* the colon being one.                                                    *)

MaxMarkers == 2
MaxResponses == 2

\* __DOWNLOAD_FILE__:<path>:<base64>:__END_DOWNLOAD__ and
\* [FILE: create|append, <path>, <content>] as the two patterns read them
FileMarkers ==
  { [kind |-> "b64", type |-> "create", path |-> <<"d">>,
     content |-> <<"Yg">>],
    [kind |-> "file", type |-> "create", path |-> <<"a">>,
     content |-> <<"b", ":", "c">>],
    [kind |-> "file", type |-> "create", path |-> <<"a", ":", "b">>,
     content |-> <<"c">>],
    [kind |-> "file", type |-> "append", path |-> <<"a">>,
     content |-> <<"b", ":", "c">>] }

FileResponses ==
  UNION {[1..n -> FileMarkers] : n \in 0..MaxMarkers}

\* `b64:${filePath}:${b64Content}` and
\* `file:${action.type}:${action.path}:${action.content}`
markerKey(marker) ==
  <<marker.kind, ":">>
  \o (IF marker.kind = "file" THEN <<marker.type, ":">> ELSE <<>>)
  \o marker.path \o <<":">> \o marker.content

\* variant: no marker counts as seen
HasMarker_never(processed, key) == FALSE

\* processedFileMarkers.has(markerKey)
HasMarker(processed, key) == key \in processed

IsDownload(marker) == marker.kind = "b64"
IsFileBlock(marker) == marker.kind = "file"

\* the markers of one response in the order the cycle goes through them:
\* the download markers first, then the [FILE: ...] blocks
MarkersOfResponse(collected) ==
  SelectSeq(collected, IsDownload) \o SelectSeq(collected, IsFileBlock)

\* for (const responseText of assistantResponsesForFileActions)
MarkersInOrder(responses) ==
  Flatten([r \in 1..Len(responses) |-> MarkersOfResponse(responses[r])])

\* sendMessage up to the initial request
FilesSend(enabled) ==
  /\ filesPc = "idle"
  /\ fileOperationsEnabled' = enabled
  /\ assistantResponsesForFileActions' = <<>>
  /\ filesPc' = "initial"
  /\ UNCHANGED <<fileCancelled, processedFileMarkers, filePos, fileCalls,
                 outsideFiles>>

\* stopGeneration while the send cycle is under way
FilesCancel ==
  /\ filesPc \in {"initial", "loop", "files"}
  /\ ~fileCancelled
  /\ fileCancelled' = TRUE
  /\ UNCHANGED <<fileOperationsEnabled, assistantResponsesForFileActions,
                 filesPc, processedFileMarkers, filePos, fileCalls,
                 outsideFiles>>

\* the initial response has been read
FilesInitialResponse(collected) ==
  /\ filesPc = "initial"
  /\ ~fileCancelled
  /\ assistantResponsesForFileActions' =
       Append(assistantResponsesForFileActions, collected)
  /\ filesPc' = "loop"
  /\ UNCHANGED <<fileOperationsEnabled, fileCancelled, processedFileMarkers,
                 filePos, fileCalls, outsideFiles>>

\* the initial request throws, by cancellation or by failure: outer catch
FilesInitialThrows ==
  /\ filesPc = "initial"
  /\ filesPc' = "done"
  /\ UNCHANGED <<fileOperationsEnabled, assistantResponsesForFileActions,
                 fileCancelled, processedFileMarkers, filePos, fileCalls,
                 outsideFiles>>

\* a continuation response has been read
FilesContinuation(collected) ==
  /\ filesPc = "loop"
  /\ ~fileCancelled
  /\ Len(assistantResponsesForFileActions) < MaxResponses
  /\ assistantResponsesForFileActions' =
       Append(assistantResponsesForFileActions, collected)
  /\ UNCHANGED <<fileOperationsEnabled, filesPc, fileCancelled,
                 processedFileMarkers, filePos, fileCalls, outsideFiles>>

\* the loop is over or was never entered: its guard fails, it breaks, or the
\* AbortError of a cancelled continuation breaks it
FilesLoopLeft ==
  /\ filesPc = "loop"
  /\ filesPc' = "files"
  /\ UNCHANGED <<fileOperationsEnabled, assistantResponsesForFileActions,
                 fileCancelled, processedFileMarkers, filePos, fileCalls,
                 outsideFiles>>

\* the next marker: skipped when its key was seen, executed otherwise
FilesMarker ==
  /\ filesPc = "files"
  /\ fileOperationsEnabled
  /\ filePos < Len(MarkersInOrder(assistantResponsesForFileActions))
  /\ LET marker == MarkersInOrder(assistantResponsesForFileActions)[filePos + 1]
         seen == HasMarker(processedFileMarkers, markerKey(marker))
     IN /\ processedFileMarkers' =
             processedFileMarkers \cup {markerKey(marker)}
        /\ fileCalls' = IF seen THEN fileCalls ELSE Append(fileCalls, marker)
  /\ filePos' = filePos + 1
  /\ UNCHANGED <<fileOperationsEnabled, assistantResponsesForFileActions,
                 filesPc, fileCancelled, outsideFiles>>

\* the file actions are over, or were disabled
FilesEnd ==
  /\ filesPc = "files"
  /\ \/ ~fileOperationsEnabled
     \/ filePos = Len(MarkersInOrder(assistantResponsesForFileActions))
  /\ filesPc' = "done"
  /\ UNCHANGED <<fileOperationsEnabled, assistantResponsesForFileActions,
                 fileCancelled, processedFileMarkers, filePos, fileCalls,
                 outsideFiles>>

\* finally: the locals of the send cycle are gone
FilesFinally ==
  /\ filesPc = "done"
  /\ filesPc' = "idle"
  /\ fileOperationsEnabled' = TRUE
  /\ assistantResponsesForFileActions' = <<>>
  /\ fileCancelled' = FALSE
  /\ processedFileMarkers' = {}
  /\ filePos' = 0
  /\ fileCalls' = <<>>
  /\ UNCHANGED outsideFiles

NextFiles ==
  \/ \E enabled \in BOOLEAN : FilesSend(enabled)
  \/ FilesCancel
  \/ \E collected \in FileResponses : FilesInitialResponse(collected)
  \/ FilesInitialThrows
  \/ \E collected \in FileResponses : FilesContinuation(collected)
  \/ FilesLoopLeft
  \/ FilesMarker
  \/ FilesEnd
  \/ FilesFinally

SpecFiles == Init /\ [][NextFiles]_vars

----------------------------------------------------------------------------
(* The context menu: the background script opens the side panel and stores *)
(* a pendingAction; the panel reads the storage once, when it mounts.      *)

MaxClicks == 3

panelState == <<mountRead, menuPrompt, menuDispatchRef, menuLoading,
                menuSendFrom>>

\* a context-menu item is clicked: the listener calls sidePanel.open
MenuClicked(prompt) ==
  /\ listenerPc = "idle"
  /\ clicks < MaxClicks
  /\ clicks' = clicks + 1
  /\ menuItem' = prompt
  /\ listenerPc' = "opening"
  /\ UNCHANGED <<pendingAction, panelOpen, panelState, storedActions,
                 dispatched, outsideMenu>>

\* the panel mounts: its state is the initial one and the mount effect
\* issues the storage read
Mount ==
  /\ panelOpen' = TRUE
  /\ mountRead' = "issued"
  /\ menuPrompt' = "none"
  /\ menuDispatchRef' = "none"
  /\ menuLoading' = FALSE
  /\ menuSendFrom' = "none"

\* sidePanel.open resolves: a closed panel is opened, an open one stays
SidePanelOpened ==
  /\ listenerPc = "opening"
  /\ listenerPc' = "writing"
  /\ IF panelOpen THEN UNCHANGED <<panelOpen, panelState>> ELSE Mount
  /\ UNCHANGED <<pendingAction, menuItem, clicks, storedActions, dispatched,
                 outsideMenu>>

\* storage.local.set({ pendingAction })
PendingActionStored ==
  /\ listenerPc = "writing"
  /\ pendingAction' = menuItem
  /\ storedActions' = storedActions + 1
  /\ listenerPc' = "idle"
  /\ menuItem' = "none"
  /\ UNCHANGED <<clicks, panelOpen, panelState, dispatched, outsideMenu>>

\* the user opens the panel by the toolbar button
UserOpensPanel ==
  /\ ~panelOpen
  /\ Mount
  /\ UNCHANGED <<pendingAction, listenerPc, menuItem, clicks, storedActions,
                 dispatched, outsideMenu>>

\* the user closes the panel: its state is gone
UserClosesPanel ==
  /\ panelOpen
  /\ panelOpen' = FALSE
  /\ mountRead' = "none"
  /\ menuPrompt' = "none"
  /\ menuDispatchRef' = "none"
  /\ menuLoading' = FALSE
  /\ menuSendFrom' = "none"
  /\ UNCHANGED <<pendingAction, listenerPc, menuItem, clicks, storedActions,
                 dispatched, outsideMenu>>

\* the callback of the mount effect's storage.local.get
MountReadReturns ==
  /\ mountRead = "issued"
  /\ mountRead' = "done"
  /\ menuPrompt' = IF pendingAction # "none" THEN pendingAction ELSE menuPrompt
  /\ UNCHANGED <<pendingAction, listenerPc, menuItem, clicks, panelOpen,
                 menuDispatchRef, menuLoading, menuSendFrom, storedActions,
                 dispatched, outsideMenu>>

\* chrome.storage.local.remove("pendingAction")
RemovePendingAction(stored) == "none"

\* the pending-prompt effect passes its guards and calls sendMessage
PendingPromptDispatched ==
  /\ panelOpen
  /\ ~menuLoading
  /\ menuPrompt # "none"
  /\ menuDispatchRef # menuPrompt
  /\ menuDispatchRef' = menuPrompt
  /\ menuPrompt' = "none"
  /\ pendingAction' = RemovePendingAction(pendingAction)
  /\ menuLoading' = TRUE
  /\ menuSendFrom' = menuPrompt
  /\ dispatched' = dispatched + 1
  /\ UNCHANGED <<listenerPc, menuItem, clicks, panelOpen, mountRead,
                 storedActions, outsideMenu>>

\* the user sends a message in the open panel
MenuUserSend ==
  /\ panelOpen
  /\ ~menuLoading
  /\ menuLoading' = TRUE
  /\ menuSendFrom' = "none"
  /\ UNCHANGED <<pendingAction, listenerPc, menuItem, clicks, panelOpen,
                 mountRead, menuPrompt, menuDispatchRef, storedActions,
                 dispatched, outsideMenu>>

\* sendMessage reaches its finally; the finally of the effect's call resets
\* the dispatch ref
MenuSendOver ==
  /\ panelOpen
  /\ menuLoading
  /\ menuLoading' = FALSE
  /\ menuDispatchRef' =
       IF menuSendFrom # "none" /\ menuDispatchRef = menuSendFrom
         THEN "none"
         ELSE menuDispatchRef
  /\ menuSendFrom' = "none"
  /\ UNCHANGED <<pendingAction, listenerPc, menuItem, clicks, panelOpen,
                 mountRead, menuPrompt, storedActions, dispatched,
                 outsideMenu>>

NextMenu ==
  \/ \E prompt \in Prompts : MenuClicked(prompt)
  \/ SidePanelOpened
  \/ PendingActionStored
  \/ UserOpensPanel
  \/ UserClosesPanel
  \/ MountReadReturns
  \/ PendingPromptDispatched
  \/ MenuUserSend
  \/ MenuSendOver

SpecMenu == Init /\ [][NextMenu]_vars

\* the calls of the browser API resolve, the callbacks and effects of the
\* panel run; what the user does carries no fairness
SpecMenuLive ==
  /\ SpecMenu
  /\ WF_vars(SidePanelOpened)
  /\ WF_vars(PendingActionStored)
  /\ WF_vars(MountReadReturns)
  /\ WF_vars(PendingPromptDispatched)
  /\ WF_vars(MenuSendOver)

----------------------------------------------------------------------------
(* The page loggers.  A log entry is the number of the console call or of  *)
(* the request it records.                                                 *)

maxLogs == 200

MaxConsoleCalls == 201
MaxCircular == 1
MaxRequests == 3
MaxInjections == 2

\* push, then splice(0, length - maxLogs) when the buffer is too long
PushCapped(logs, entry) ==
  LET pushed == Append(logs, entry)
  IN  IF Len(pushed) > maxLogs
        THEN SubSeq(pushed, Len(pushed) - maxLogs + 1, Len(pushed))
        ELSE pushed

\* the entry pushed by each of n wrappers or listeners
RECURSIVE PushTimes(_, _, _)
PushTimes(logs, entry, n) ==
  IF n = 0 THEN logs ELSE PushTimes(PushCapped(logs, entry), entry, n - 1)

\* the arguments of a console call: strings and plain objects, or an object
\* JSON.stringify throws on (a cycle, a BigInt)
ConsoleArgs == {"plain", "circular"}

\* push(level, args): when JSON.stringify throws, the catch drops the entry
ConsolePushes(args) == IF args = "circular" THEN 0 ELSE 1

\* executeBrowserAction runs ensureClientLoggers: each patch is installed
\* unless its flag is set
EnsureClientLoggers ==
  /\ injections < MaxInjections
  /\ injections' = injections + 1
  /\ copilotConsolePatched' = TRUE
  /\ consoleWrappers' =
       IF copilotConsolePatched THEN consoleWrappers ELSE consoleWrappers + 1
  /\ copilotNetworkPatched' = TRUE
  /\ networkWrappers' =
       IF copilotNetworkPatched THEN networkWrappers ELSE networkWrappers + 1
  /\ UNCHANGED <<copilotConsoleLogs, copilotNetworkLogs, consoleCalls,
                 requests, loadendListeners, outsideLogger>>

\* the page calls console.log, info, warn or error
ConsoleCall(args) ==
  /\ copilotConsolePatched
  /\ consoleCalls < MaxConsoleCalls
  /\ args = "circular" => consoleCalls < MaxCircular
  /\ consoleCalls' = consoleCalls + 1
  /\ copilotConsoleLogs' =
       PushTimes(copilotConsoleLogs, consoleCalls + 1,
                 consoleWrappers * ConsolePushes(args))
  /\ UNCHANGED <<copilotConsolePatched, copilotNetworkPatched,
                 consoleWrappers, networkWrappers, copilotNetworkLogs,
                 requests, loadendListeners, injections, outsideLogger>>

\* the page calls fetch and the request settles
FetchCall ==
  /\ copilotNetworkPatched
  /\ requests < MaxRequests
  /\ requests' = requests + 1
  /\ copilotNetworkLogs' =
       PushTimes(copilotNetworkLogs, requests + 1, networkWrappers)
  /\ UNCHANGED <<copilotConsolePatched, copilotNetworkPatched,
                 consoleWrappers, networkWrappers, copilotConsoleLogs,
                 consoleCalls, loadendListeners, injections, outsideLogger>>

\* the page calls open and send on an XMLHttpRequest, a new one or the one
\* it used before, and the request ends: send adds a loadend listener, and
\* every loadend listener of the object pushes an entry
XhrSend(reused) ==
  /\ copilotNetworkPatched
  /\ requests < MaxRequests
  /\ requests' = requests + 1
  /\ loadendListeners' =
       (IF reused THEN loadendListeners ELSE 0) + networkWrappers
  /\ copilotNetworkLogs' =
       PushTimes(copilotNetworkLogs, requests + 1, loadendListeners')
  /\ UNCHANGED <<copilotConsolePatched, copilotNetworkPatched,
                 consoleWrappers, networkWrappers, copilotConsoleLogs,
                 consoleCalls, injections, outsideLogger>>

\* the tab loads another page: a new window without loggers
PageNavigates ==
  /\ injections > 0
  /\ copilotConsolePatched' = FALSE
  /\ copilotNetworkPatched' = FALSE
  /\ consoleWrappers' = 0
  /\ networkWrappers' = 0
  /\ copilotConsoleLogs' = <<>>
  /\ copilotNetworkLogs' = <<>>
  /\ consoleCalls' = 0
  /\ requests' = 0
  /\ loadendListeners' = 0
  /\ injections' = 0
  /\ UNCHANGED outsideLogger

NextLogger ==
  \/ EnsureClientLoggers
  \/ \E args \in ConsoleArgs : ConsoleCall(args)
  \/ FetchCall
  \/ \E reused \in BOOLEAN : XhrSend(reused)
  \/ PageNavigates

SpecLogger == Init /\ [][NextLogger]_vars

----------------------------------------------------------------------------
(* handleDialog.  A dialog function is the stack of the handlers installed *)
(* over the native function: each handler holds, as its original, what was *)
(* below it when it was installed.                                         *)

MaxHandlers == 2
MaxDialogs == 3

DialogKinds == {"alert", "confirm", "prompt"}

\* the arguments of the injected function: accept and promptText
Handlers == [shouldAccept : BOOLEAN, text : {"undefined", "t"}]

\* what the handler of a kind returns
HandlerReturns(kind, handler) ==
  CASE kind = "alert" -> "undefined"
    [] kind = "confirm" -> IF handler.shouldAccept THEN "true" ELSE "false"
    [] kind = "prompt" ->
         IF handler.shouldAccept
           THEN (IF handler.text = "undefined" THEN "" ELSE handler.text)
           ELSE "null"

\* the function a handler puts back when it is called: its original
Restored(fn) == SubSeq(fn, 1, Len(fn) - 1)

\* handleDialog: all three functions are replaced, each new handler keeping
\* the current function as its original
HandleDialog(handler) ==
  /\ handlersSet < MaxHandlers
  /\ handlersSet' = handlersSet + 1
  /\ windowAlert' = Append(windowAlert, handler)
  /\ windowConfirm' = Append(windowConfirm, handler)
  /\ windowPrompt' = Append(windowPrompt, handler)
  /\ dialogsSince' = 0
  /\ lastDialog' = NoDialog
  /\ UNCHANGED outsideDialog

\* the function of a kind as the page finds it
DialogFn(kind) ==
  CASE kind = "alert" -> windowAlert
    [] kind = "confirm" -> windowConfirm
    [] kind = "prompt" -> windowPrompt

\* the page opens a dialog: a handler answers it and puts its original back
\* in its own place, or the native function shows the dialog
DialogOpens(kind) ==
  /\ handlersSet > 0
  /\ dialogsSince < MaxDialogs
  /\ dialogsSince' = dialogsSince + 1
  /\ LET fn == DialogFn(kind)
     IN  IF fn = <<>>
           THEN /\ lastDialog' =
                     [kind |-> kind, by |-> "native", returns |-> "user"]
                /\ UNCHANGED <<windowAlert, windowConfirm, windowPrompt>>
           ELSE /\ lastDialog' =
                     [kind |-> kind, by |-> "handler",
                      returns |-> HandlerReturns(kind, fn[Len(fn)])]
                /\ windowAlert' =
                     IF kind = "alert" THEN Restored(fn) ELSE windowAlert
                /\ windowConfirm' =
                     IF kind = "confirm" THEN Restored(fn) ELSE windowConfirm
                /\ windowPrompt' =
                     IF kind = "prompt" THEN Restored(fn) ELSE windowPrompt
  /\ UNCHANGED <<handlersSet, outsideDialog>>

\* the tab loads another page: the native functions again
DialogPageLoads ==
  /\ handlersSet > 0
  /\ windowAlert' = <<>>
  /\ windowConfirm' = <<>>
  /\ windowPrompt' = <<>>
  /\ handlersSet' = 0
  /\ dialogsSince' = 0
  /\ lastDialog' = NoDialog
  /\ UNCHANGED outsideDialog

NextDialog ==
  \/ \E handler \in Handlers : HandleDialog(handler)
  \/ \E kind \in DialogKinds : DialogOpens(kind)
  \/ DialogPageLoads

SpecDialog == Init /\ [][NextDialog]_vars

----------------------------------------------------------------------------
(* Properties of the loop controller *)

\* the send cycle has left the loop (or never entered it) and is about to
\* run, or has run, its file actions
CycleOver == pc \in {"FileActions", "Finally"}

MaxLoopsMessages == Count(appended, "maxAgentLoopsReached")
ConnectionErrors == Count(appended, "connectionError")

\* C1: in agent mode with browser actions enabled, without cancellation or
\* transport failure, when every LLM response holds at least one action,
\* the loop runs exactly N = clampAgentLoops(maxAgentLoops) execution
\* cycles (never N + 1) and then appends the max-loops message exactly once.
C1_BudgetExhaustedAfterN ==
  /\ loopCount <= safeMaxAgentLoops
  /\ batches <= safeMaxAgentLoops
  /\ ( /\ CycleOver
       /\ provider = "copilot-agent"
       /\ browserActionsEnabled
       /\ ~cancelled
       /\ transportFailed = {}
       /\ ~zeroSeen )
     => /\ loopCount = safeMaxAgentLoops
        /\ batches = safeMaxAgentLoops
        /\ MaxLoopsMessages = 1
        /\ exitReason = "budget"

C1_Witness ==
  /\ pc = "Finally"
  /\ provider = "copilot-agent"
  /\ browserActionsEnabled
  /\ ~cancelled
  /\ transportFailed = {}
  /\ ~zeroSeen
  /\ safeMaxAgentLoops = 3
  /\ batches = 3
  /\ MaxLoopsMessages = 1

\* C2: whenever a fully received response has zero actions and no completion
\* phrase (after any number k in 0..N of execution cycles), the send cycle
\* ends without the max-loops message.
C2_ZeroActionsNeverBudget ==
  ( /\ CycleOver
    /\ currentResponse.kind = "text"
    /\ currentResponse.n = 0
    /\ ~currentResponse.completion )
  => MaxLoopsMessages = 0

\* C3: the max-loops message is appended only when the loop stopped because
\* the budget was reached, never after a cancellation, the non-agent stop,
\* an empty continuation response or a failed continuation request.
C3_BudgetMessageOnlyOnBudget ==
  MaxLoopsMessages > 0 => exitReason = "budget"

C5_ContinuationFailureStops ==
  [][("continuation" \in transportFailed)
       => /\ loopCount' <= loopCount
          /\ pc' # "Exec"]_vars

\* C6: no response is parsed and executed in two different execution cycles.
C6_NoResponseExecutedTwice == timesExecuted <= 1

\* C7: every transport-level failure of a /chat request, initial or
\* continuation, leaves a connection-error message in the chat.
C7_TransportFailureReported ==
  (pc = "Finally" /\ transportFailed # {}) => ConnectionErrors >= 1

\* C8: a non-agent provider executes at most one action batch per send cycle
\* and calls POST /chat exactly once (the initial request), whatever the
\* action results and the loop budget; the request leaves the panel unless
\* the cycle was cancelled before.
C8_NonAgentSingleCycle ==
  provider # "copilot-agent"
  => /\ loopCount <= 1
     /\ batches <= 1
     /\ fetchCalls <= 1
     /\ requestsSent <= fetchCalls
     /\ CycleOver => /\ fetchCalls = 1
                     /\ (~cancelled => requestsSent = 1)

C8_Witness ==
  /\ pc = "Finally"
  /\ provider = "lm-studio"
  /\ safeMaxAgentLoops > 1
  /\ batches = 1
  /\ lastThree = <<TRUE>>
  /\ fetchCalls = 1
  /\ requestsSent = 1

\* C9: at the head of the loop a response without actions always ends the
\* loop, with or without a completion phrase, and a response with at least
\* one action always starts an execution cycle when the budget and the abort
\* signal allow it, with or without a completion phrase.
C9_OnlyActionsDecide ==
  [][pc = "LoopHead"
       => /\ (currentResponse.n = 0
                => pc' = "FileActions" /\ loopCount' = loopCount)
          /\ ( /\ currentResponse.n > 0
               /\ loopCount < safeMaxAgentLoops
               /\ abortController # "aborted"
               => pc' = "Exec" /\ loopCount' = loopCount + 1 )]_vars

C9_Witness ==
  /\ pc = "Exec"
  /\ currentResponse.n > 0
  /\ currentResponse.completion
  /\ currentResponse.id > 1

\* C10: in hybrid mode the fallback is on as soon as the last three execution
\* cycles each had a failed action, and once on it stays on until the send
\* cycle is over.
C10_HybridFallbackOneWay ==
  /\ []( (operationMode = "hybrid" /\ lastThree = <<TRUE, TRUE, TRUE>>)
           => useScreenshotFallback )
  /\ [][(useScreenshotFallback /\ pc # "Finally")
          => useScreenshotFallback']_vars

C10_Witness ==
  /\ operationMode = "hybrid"
  /\ useScreenshotFallback
  /\ batches >= 4
  /\ lastThree[3] = FALSE
  /\ consecutiveErrors = 0

\* C11: the fallback is activated only by the hybrid rule.  In text mode it
\* is never on; in hybrid mode it is off when the loop starts and goes on
\* only in a step that completes three consecutive erroring cycles; a cycle
\* without error-classified results leaves consecutiveErrors at 0; a send
\* cycle starts its loop with consecutiveErrors = 0 and the fallback on
\* exactly in screenshot mode.
C11_FallbackOnlyByHybridRule ==
  /\ []( /\ operationMode = "text" => ~useScreenshotFallback
         /\ (operationMode = "hybrid" /\ batches < 3)
              => ~useScreenshotFallback
         /\ (pc = "LoopHead" /\ batches = 0)
              => /\ consecutiveErrors = 0
                 /\ useScreenshotFallback = (operationMode = "screenshot")
         /\ (pc \in {"Idle", "GetContent", "AwaitInitial"})
              => consecutiveErrors = 0 /\ ~useScreenshotFallback
         /\ (lastThree # <<>> /\ ~lastThree[Len(lastThree)]
               /\ pc \notin {"Exec", "CycleEnd"})
              => consecutiveErrors = 0 )
  /\ [][(operationMode = "hybrid" /\ ~useScreenshotFallback
           /\ useScreenshotFallback')
          => lastThree' = <<TRUE, TRUE, TRUE>>]_vars

C11_Witness ==
  /\ operationMode = "hybrid"
  /\ batches = 4
  /\ lastThree = <<FALSE, TRUE, TRUE>>
  /\ consecutiveErrors = 2
  /\ ~useScreenshotFallback

----------------------------------------------------------------------------
(* Properties of the action parser and of the batch loop *)

ParseOver == parsePc \notin {"off", "scan"}

\* the function text of the evaluate example
EvaluateScript ==
  <<"()", " ", "=>", " ", "{", " ", "return", " ", "[", "1", ",", "2", ",",
    "3", "]", ";", " ", "}">>

\* C16: the text "[ACTION: evaluate, () => { return [1,2,3]; }]" parses to
\* exactly one evaluate action whose script is the whole function text and
\* which has no selector.
C16_NestedBracketsCapturedInFull ==
  (ParseOver /\ responseText = EntryEvaluate)
    => parsedActions = <<[type |-> "evaluate", script |-> EvaluateScript]>>

\* the entry occurs in the text at position k
HasEntryAt(text, k, entry) ==
  /\ k + Len(entry) - 1 <= Len(text)
  /\ SubSeq(text, k, k + Len(entry) - 1) = entry

Occurrences(text, entries) ==
  {<<k, entry>> \in (1..Len(text)) \X entries : HasEntryAt(text, k, entry)}

\* the action of a closed entry taken by itself
Returned(entry) == EntryAction(Trim(SubSeq(entry, 2, Len(entry) - 1)))

\* C17: every well-formed entry of the text is returned, whatever entries
\* come before or after it (unknown type, missing parameters, missing
\* closing bracket, unbalanced brackets).
C17_BadEntryNeverLosesOthers ==
  ParseOver =>
    \A o \in Occurrences(responseText, WellFormed) :
      \E m \in 1..Len(parsedActions) : parsedActions[m] = Returned(o[2])

\* C18: every iteration of the scan moves the scan index forward, the
\* result holds at most one action per marker, and entries that are
\* malformed, underspecified or of unknown type add no action: the list is
\* no longer than the number of well-formed entries of the text.
C18_ParserTotal ==
  /\ [][(parsePc = "scan" /\ parsePc' = "scan") => scanIndex' > scanIndex]_vars
  /\ [](ParseOver =>
          /\ Len(parsedActions)
               <= Cardinality(Occurrences(responseText, {<<Marker>>}))
          /\ Len(parsedActions)
               <= Cardinality(Occurrences(responseText, WellFormed)))

\* the params of the one entry of a text of SpecParams, split at commas
GivenParams == SubSeq(responseText, 5, Len(responseText) - 1)
GivenParts == SplitTrim(Trim(GivenParams))

\* C19: a returned action has every field its type requires, with the
\* value the entry gave for it: no coordinate, selector, value or direction
\* is made up for a part the entry left out.
C19_RequiredFieldsSupplied ==
  (ParseOver /\ responseText[1] = Marker) =>
    \A m \in 1..Len(parsedActions) :
      LET a == parsedActions[m]
      IN /\ a.type = "clickXY"
              => Part(GivenParts, 1) # <<>> /\ Part(GivenParts, 2) # <<>>
         /\ a.type = "select"
              => /\ a.selector = Part(GivenParts, 1) /\ a.selector # <<>>
                 /\ a.value = Part(GivenParts, 2) /\ a.value # <<>>
         /\ a.type = "drag"
              => /\ a.startSelector = Part(GivenParts, 1)
                 /\ a.startSelector # <<>>
                 /\ a.endSelector = Part(GivenParts, 2)
                 /\ a.endSelector # <<>>
         /\ a.type = "scroll" => Part(GivenParts, 1) = <<a.direction>>
         /\ a.type = "type" => a.selector # <<>> /\ a.text # <<>>

\* C32: the direction of a parsed scroll action is the direction token
\* given as the first positional parameter of the entry, with or without
\* an amount after it.
C32_ScrollDirectionAsGiven ==
  (ParseOver /\ responseText[1] = Marker) =>
    \A m \in 1..Len(parsedActions) :
      (/\ parsedActions[m].type = "scroll"
       /\ Part(GivenParts, 1) \in {<<"up">>, <<"down">>})
        => <<parsedActions[m].direction>> = Part(GivenParts, 1)

\* the text of a positional type entry as the entry gives it: what follows
\* the first comma, without the trailing flag keywords, trimmed at its ends
LastIndexOf(text, token) ==
  LET hits == {k \in 1..Len(text) : text[k] = token}
  IN IF hits = {} THEN 0 ELSE CHOOSE m \in hits : \A k \in hits : m >= k

RECURSIVE StripFlags(_)
StripFlags(st) ==
  LET lastComma == LastIndexOf(st.text, ",")
      last == Trim(SubSeq(st.text, lastComma + 1, Len(st.text)))
      rest == SubSeq(st.text, 1, lastComma - 1)
  IN IF lastComma = 0 THEN st
     ELSE IF last = <<"submit">>
       THEN StripFlags([st EXCEPT !.text = rest, !.submit = TRUE])
     ELSE IF last = <<"slowly">>
       THEN StripFlags([st EXCEPT !.text = rest, !.slowly = TRUE])
     ELSE st

GivenText ==
  LET params == Trim(GivenParams)
      firstComma == IndexOf(params, ",", 1)
  IN StripFlags([text |-> SubSeq(params, firstComma + 1, Len(params)),
                 submit |-> FALSE, slowly |-> FALSE])

\* C20: a positional type entry gives selector = the first value, submit
\* and slowly = the trailing flag keywords present, and text = the rest
\* with its characters as written, commas and the spacing around them
\* included; the text is never empty.
C20_TypeTextPreserved ==
  (ParseOver /\ Len(parsedActions) = 1 /\ parsedActions[1].type = "type") =>
    LET a == parsedActions[1]
    IN /\ a.selector = GivenParts[1]
       /\ a.text # <<>>
       /\ a.text = Trim(GivenText.text)
       /\ a.submit = GivenText.submit
       /\ a.slowly = GivenText.slowly

\* C13: whatever the executor functions do, executeBrowserAction settles
\* with a result string, and a batch of n parsed actions run to its end has
\* made n executor calls and recorded n result entries; at any moment the
\* loop has one result entry for every call that has settled.
C13_BadActionNeverAbortsBatch ==
  /\ \A k \in Events("result") :
       /\ executed[k].settled \in {"ok", "errorString"}
       /\ executed[k].entry = executed[k].settled
  /\ Cardinality(Events("result")) <= Cardinality(Events("call"))
  /\ Cardinality(Events("call")) <= Cardinality(Events("result")) + 1
  /\ parsePc = "done"
       => /\ Cardinality(Events("call")) = Len(parsedActions)
          /\ Cardinality(Events("result")) = Len(parsedActions)

C13_Witness ==
  /\ parsePc = "done"
  /\ Len(parsedActions) = 2
  /\ Len(executed) = 6
  /\ executed[2].outcome = "throw"
  /\ executed[5].outcome = "errorString"

\* the actions of the entries of a list, plain text left out
RECURSIVE ReturnedAll(_)
ReturnedAll(segments) ==
  IF segments = <<>> THEN <<>>
  ELSE IF segments[1] = PlainText THEN ReturnedAll(Tail(segments))
  ELSE <<Returned(segments[1])>> \o ReturnedAll(Tail(segments))

\* C14: the well-formed entries of a text are all parsed, in the order in
\* which they stand in the text, and the batch loop calls the executor for
\* the parsed actions in list order, a call being made only after the
\* result of the action before it was recorded and its delay was over.
C14_ParsedAndExecutedInOrder ==
  /\ ParseOver =>
       \A segments \in EntryLists(WellFormed \cup {PlainText}) :
         responseText = Flatten(segments)
           => parsedActions = ReturnedAll(segments)
  /\ \A k \in Events("call") :
       /\ executed[k].action = parsedActions[executed[k].index]
       /\ executed[k].index = Cardinality({m \in Events("call") : m < k}) + 1
       /\ k > 1 =>
            /\ executed[k - 1].event = "delay"
            /\ executed[k - 1].index = executed[k].index - 1
            /\ executed[k - 2].event = "result"
            /\ executed[k - 2].index = executed[k].index - 1

C14_Witness ==
  /\ parsePc = "done"
  /\ responseText = EntryClick \o EntryType
  /\ Len(parsedActions) = 2
  /\ parsedActions[1].type = "click"
  /\ parsedActions[2].type = "type"
  /\ Len(executed) = 6
  /\ executed[4].event = "call"

----------------------------------------------------------------------------
(* Properties of the side panel with several sendMessage invocations *)

\* C15: at most one sendMessage invocation is past its isLoading guard, no
\* two executor calls run at the same time, and a running invocation has
\* its own abort controller in abortControllerRef: no other invocation has
\* replaced or cleared it.
C15_OneSendAtATime ==
  /\ Cardinality(PastGuard) <= 1
  /\ Cardinality({i \in Sends : sends[i].pc = "exec"}) <= 1
  /\ \A i \in PastGuard : abortControllerRef = i

----------------------------------------------------------------------------
(* Properties of the element references *)

InPage == {e \in Elems : dom[e].state # "absent"}

\* C21: an action addressed to a ref acts on the element that the last
\* snapshot listed under that ref, or finds nothing; it never finds another
\* element.
C21_StaleRefNeverWrongElement ==
  resolved.element # 0 =>
    \A line \in presented :
      line[1] = resolved.ref => line[2] = resolved.element

\* C29: no two elements of the page carry the same ref.
C29_RefsUnique ==
  \A a, b \in InPage :
    (a # b /\ dom[a].ref # NoRef) => dom[a].ref # dom[b].ref

----------------------------------------------------------------------------
(* Properties of the resolution of targets *)

\* C22: whatever the kind of the action, its target is looked up by ref
\* exactly when the whole target is a ref (e<digits>, optionally prefixed
\* by "ref:"); every other target is looked up as a selector.
C22_RefOnlyWhenWholeTargetMatches ==
  resolution # "idle" =>
    (lookup.mode = "ref" <=> RefWhole(target) # <<>>)

\* C23: an action addressed by ref reports not found only after the
\* deadline of 3000 ms has elapsed.
C23_NotFoundOnlyAfterDeadline ==
  (resolution = "not found" /\ lookup.mode = "ref") => elapsed >= PollTimeout

----------------------------------------------------------------------------
(* Properties of the classification of results *)

\* C24: every result that reports a failure is counted as an error by the
\* loop: it increments errorCount of its cycle.
C24_FailureCountsAsError ==
  (classifyPc = "classified" /\ result.reports = "failure") => counted

\* C31: a result of an executor's success path is never counted as an
\* error by the loop, whatever caller data it echoes.
C31_SuccessNeverCountsAsError ==
  (classifyPc = "classified" /\ result.reports = "success") => ~counted

----------------------------------------------------------------------------
(* Properties of the screenshot permission warning *)

\* C25: whatever screenshot captures have failed, the chat holds at most
\* one permission warning, and a failure whose message has neither
\* "SCREENSHOT_PERMISSION" nor "activeTab" adds none.
C25_WarnedAtMostOnce ==
  /\ Warnings(chat) <= 1
  /\ (captureError # <<>> /\ ~IsPermissionError(captureError)) => ~warnedNow

\* a second permission failure has happened after the warning was shown
C25_Witness ==
  /\ Warnings(chat) = 1
  /\ screenshotPermissionWarnedRef
  /\ IsPermissionError(captureError)
  /\ ~warnedNow

----------------------------------------------------------------------------
(* Properties of the conversation history *)

IsPrefix(a, b) == Len(a) <= Len(b) /\ SubSeq(b, 1, Len(a)) = a

\* C26: the messages of each continuation request have the messages of the
\* request before it as a prefix, and what follows the prefix is only
\* response turns of the assistant and action-result turns of the user.
C26_HistoryAppendOnly ==
  requestCount >= 2 =>
    /\ IsPrefix(previousMessages, requestMessages)
    /\ \A k \in (Len(previousMessages) + 1)..Len(requestMessages) :
         \/ /\ requestMessages[k].role = "assistant"
            /\ requestMessages[k].what = "response"
         \/ /\ requestMessages[k].role = "user"
            /\ requestMessages[k].what = "results"

\* a third request has been made, after a continuation that failed
C26_Witness ==
  /\ requestCount = 3
  /\ Len(requestMessages) > Len(previousMessages)
  /\ requestMessages[Len(requestMessages) - 1].what = "results"

----------------------------------------------------------------------------
(* Properties of the executors *)

IsMouseEvent(entry) ==
  entry \in {"mousedown", "mouseup", "click", "dblclick", "contextmenu"}
IsStateEntry(entry) == entry \in {"checked", "change", "input"}
TimesLogged(entries, entry) ==
  Cardinality({k \in 1..Len(entries) : entries[k] = entry})
Retried == domPc = "returned" /\ runs = 2 /\ ~disturbed

\* C27 as stated: executing the same action twice in succession on an
\* otherwise unchanged page leaves the page as executing it once does, for
\* every kind of action.
C27_RetryLeavesSameState ==
  Retried => <<element, scrollY>> = afterFirst

\* C27, amended: for type, check and uncheck, executing the action twice in
\* succession leaves the target as executing it once does: its value is the
\* text, it is checked, it is unchecked.
C27_SettingActionsIdempotent ==
  (Retried /\ domAction.kind \in {"type", "check", "uncheck"}) =>
    /\ <<element, scrollY>> = afterFirst
    /\ domAction.kind = "type" => element.value = domAction.text
    /\ domAction.kind = "check" => element.checked
    /\ domAction.kind = "uncheck" => ~element.checked

\* a text has been typed twice into an input
C27_Witness ==
  /\ Retried
  /\ domAction.kind = "type"
  /\ element.value = <<"a", "b">>

\* C28: a left or middle click dispatches mousedown, mouseup, click, a
\* double click a second mousedown, mouseup, click and then dblclick, a
\* right click contextmenu only; the checked state of a checkbox or radio
\* button changes, and change and input are fired, only after these events,
\* once in a click action and never in a right click.
C28_ClickEventOrder ==
  (domPc = "returned" /\ domAction.kind = "click") =>
    IF domAction.button = "right"
      THEN trace = <<"contextmenu">>
      ELSE /\ SelectSeq(trace, IsMouseEvent) =
                IF domAction.double
                  THEN <<"mousedown", "mouseup", "click",
                         "mousedown", "mouseup", "click", "dblclick">>
                  ELSE <<"mousedown", "mouseup", "click">>
           /\ IsCheckable(element) =>
                /\ TimesLogged(trace, "checked") = 1
                /\ TimesLogged(trace, "change") = 1
                /\ TimesLogged(trace, "input") = 1
                /\ \A i, j \in 1..Len(trace) :
                     (IsMouseEvent(trace[i]) /\ IsStateEntry(trace[j]))
                       => i < j

\* C30: the click executor dispatches nothing on a target that is hidden or
\* disabled when it acts, and does not report such a click as a success.
C30_ClicksOnlyActionable ==
  (domPc = "returned" /\ domAction.kind = "click" /\ ~actionableAtClick) =>
    /\ trace = <<>>
    /\ domResult # "success"

----------------------------------------------------------------------------
(* Properties of the loop budget *)

\* C33: the budget of a send cycle is an integer from 1 to 1000: 500 for a
\* value that is not finite, otherwise the value rounded to the nearest
\* integer and brought into 1..1000; and loopCount stays between 0 and the
\* budget.
C33_BudgetInRange ==
  budgetPc = "loop" =>
    /\ loopBudget \in 1..1000
    /\ budgetLoop \in 0..loopBudget
    /\ ~storedLoops.finite => loopBudget = 500
    /\ (storedLoops.finite /\ storedLoops.halves < 1) => loopBudget = 1
    /\ (storedLoops.finite /\ storedLoops.halves > 2000) => loopBudget = 1000
    /\ (storedLoops.finite /\ storedLoops.halves \in 1..2000) =>
         storedLoops.halves \in {2 * loopBudget - 1, 2 * loopBudget}

\* a value above the limit was entered and the loop has used its budget
C33_Witness ==
  /\ budgetPc = "loop"
  /\ storedLoops.finite
  /\ storedLoops.halves > 2000
  /\ budgetLoop = loopBudget

----------------------------------------------------------------------------
(* Termination of the send cycle *)

----------------------------------------------------------------------------
(* Properties of the file actions *)

TimesCalled(marker) ==
  Cardinality({k \in 1..Len(fileCalls) : fileCalls[k] = marker})

\* C35: once the user has cancelled a send cycle, executeFileAction is not
\* called for it any more, whichever request the cancellation hit.
C35_NoFileActionAfterCancel ==
  [][fileCancelled => Len(fileCalls') <= Len(fileCalls)]_vars

\* C36: in one send cycle executeFileAction is called at most once for each
\* distinct marker, however often the marker occurs in the collected
\* responses; it is called only after the loop and only with file operations
\* enabled.
C36_EachMarkerAtMostOnce ==
  /\ \A marker \in FileMarkers : TimesCalled(marker) <= 1
  /\ fileCalls # <<>> =>
       (filesPc \in {"files", "done"} /\ fileOperationsEnabled)

\* the same marker stands in two responses and twice in one of them; the
\* file actions are over and it was executed
C36_Witness ==
  /\ filesPc = "done"
  /\ Len(assistantResponsesForFileActions) = 2
  /\ \E marker \in FileMarkers :
       /\ assistantResponsesForFileActions[1] = <<marker, marker>>
       /\ marker \in {assistantResponsesForFileActions[2][k] :
                        k \in 1..Len(assistantResponsesForFileActions[2])}
       /\ TimesCalled(marker) = 1

----------------------------------------------------------------------------
(* Properties of the context menu *)

\* C37: every pendingAction the background script stores is eventually
\* dispatched by the panel and removed from the storage, whether the panel was
\* open or not and however its mount read interleaves with the write; and no
\* pendingAction is dispatched twice.
C37_PendingActionDeliveredOnce ==
  /\ [](dispatched <= storedActions)
  /\ (pendingAction # "none") ~> (pendingAction = "none")

----------------------------------------------------------------------------
(* Properties of the page loggers *)

\* the numbers first..last in ascending order
Interval(first, last) == [k \in 1..(last - first + 1) |-> first + k - 1]

\* C38: the loggers are installed at most once per page; each buffer holds
\* at most 200 entries, and they are the most recent console calls, or
\* requests, each exactly once and in the order of arrival.
C38_LoggersOnceAndBounded ==
  /\ consoleWrappers <= 1
  /\ networkWrappers <= 1
  /\ Len(copilotConsoleLogs) <= 200
  /\ Len(copilotNetworkLogs) <= 200
  /\ copilotConsoleLogs = Interval(Max2(1, consoleCalls - 199), consoleCalls)
  /\ copilotNetworkLogs = Interval(Max2(1, requests - 199), requests)

----------------------------------------------------------------------------
(* Properties of handleDialog *)

\* C39: once the first dialog after a handleDialog has been handled, alert,
\* confirm and prompt are all the native functions again, also when
\* handleDialog ran several times before the dialog.
C39_OnlyNextDialogHandled ==
  dialogsSince >= 1 =>
    /\ windowAlert = <<>>
    /\ windowConfirm = <<>>
    /\ windowPrompt = <<>>

====
